---- MODULE Spec2Model ----
(***************************************************************************)
(* Trading performance analytics of trade-journal-analysis.               *)
(*                                                                         *)
(* The model follows one batch of closed-P&L records through the three     *)
(* consumers of the batch:                                                 *)
(*   TradingAnalyzer.prepare_trading_data_summary (the LLM payload),       *)
(*   generate_html_report and generate_html_with_drive_urls (the report),  *)
(* and _create_rr_section / _analyze_stop_loss_data (the R-multiples).     *)
(*                                                                         *)
(* Numbers.  The exchange gives every number as a string; the strings are  *)
(* sequences of characters here and are parsed as the code parses them.    *)
(* A float holding money is an integer number of cents; a float that is a  *)
(* quotient (a mean, a rate, an R-multiple) is an exact fraction, or INF.  *)
(* A millisecond timestamp is the pair (whole seconds, milliseconds).      *)
(***************************************************************************)
EXTENDS Integers, Sequences, FiniteSets, TLC

VARIABLES
    pnl_data,        \* the raw records, as get_closed_pnl returned them
    user_input,      \* the user's input bundle (a dict, or None)
    STANDARD_RISK,   \* constants/env.py: os.getenv("STANDARD_RISK", "")
    pc,              \* which consumer of the batch runs next
    summary,         \* outcome of prepare_trading_data_summary
    report,          \* outcome of generate_html_report
    gdrive_report,   \* outcome of generate_html_with_drive_urls
    rr_section,      \* outcome of _create_rr_section
    summary_again,   \* outcome of a second prepare_trading_data_summary call
    processed,       \* outcome of convert_raw_to_processed
    report_columns,  \* the optional numeric columns of the report's frame
    report_plots_folder, \* generate_report.py: the module's global
    runs,            \* the position of each generate_html_report run
    savefig_calls,   \* the paths handed to plt.savefig, with the run
    args,            \* main: the parsed --tempdir and --upload
    OPENROUTER_API_KEY, \* constants/env.py: os.getenv("OPENROUTER_API_KEY", "")
    calls,           \* main: the calls made so far, in order
    llm_analysis,    \* outcome of analyze_trading_data
    api_calls,       \* the requests posted to the OpenRouter API
    api_response,    \* what the OpenRouter API answers
    exchange,        \* the pages Bybit will answer with, in order
    requests,        \* get_closed_pnl: the cursor of each request sent
    all_pnl_data,    \* get_closed_pnl: the records collected so far
    next_cursor,     \* get_closed_pnl: the cursor of the next request
    closed_pnl,      \* outcome of get_closed_pnl
    drive_files,     \* the files and folders the Drive holds
    drive_call       \* the GoogleDriveService call in progress

\* the state of the normalizer and of the report's optional columns
normalizer_vars == <<processed, report_columns>>
\* the state of the plotting half of generate_html_report
plot_vars == <<report_plots_folder, runs, savefig_calls>>

\* the state of main's run and of the LLM analysis
main_vars == <<args, OPENROUTER_API_KEY, calls>>
llm_vars == <<llm_analysis, api_calls, api_response>>
\* the state of get_closed_pnl and of the exchange it queries
fetch_vars == <<exchange, requests, all_pnl_data, next_cursor, closed_pnl>>
\* the Drive, as GoogleDriveService sees it
drive_vars == <<drive_files, drive_call>>
service_vars == <<main_vars, llm_vars, fetch_vars, drive_vars>>

vars == <<pnl_data, user_input, STANDARD_RISK, pc, summary, report,
          gdrive_report, rr_section, summary_again, normalizer_vars,
          plot_vars, service_vars>>

----------------------------------------------------------------------------
(* Bounds of the model.                                                    *)

MaxTrades == 2

----------------------------------------------------------------------------
(* Exact fractions for float quotients.                                    *)

RECURSIVE GCD(_, _)
GCD(a, b) == IF b = 0 THEN a ELSE GCD(b, a % b)

Abs(n) == IF n < 0 THEN -n ELSE n

\* n / d with d # 0, in lowest terms with a positive denominator.
Frac(n, d) ==
    LET g == GCD(Abs(n), Abs(d))
        s == IF d < 0 THEN -1 ELSE 1
    IN  [k |-> "fin", n |-> (s * n) \div g, d |-> (s * d) \div g]

Num(n) == Frac(n, 1)
INF == [k |-> "inf", n |-> 1, d |-> 0]
NAN == [k |-> "nan", n |-> 0, d |-> 0]

IsFinite(x) == x.k = "fin"
FLess(a, b) == a.n * b.d < b.n * a.d         \* a < b, both finite
FLeq(a, b) == a.n * b.d <= b.n * a.d
FAbs(a) == [a EXCEPT !.n = Abs(a.n)]
FMul(a, b) == Frac(a.n * b.n, a.d * b.d)
\* float division a / b of finite values, b # 0
FDiv(a, b) == Frac(a.n * b.d, a.d * b.n)

----------------------------------------------------------------------------
(* Parsing the exchange's strings.                                         *)

DigitChars == {"0", "1", "2", "3", "4", "5", "6", "7", "8", "9"}

DigitVal(c) ==
    CASE c = "0" -> 0 [] c = "1" -> 1 [] c = "2" -> 2 [] c = "3" -> 3
      [] c = "4" -> 4 [] c = "5" -> 5 [] c = "6" -> 6 [] c = "7" -> 7
      [] c = "8" -> 8 [] c = "9" -> 9

AllDigits(cs) == \A i \in 1..Len(cs) : cs[i] \in DigitChars

RECURSIVE ParseDigits(_)
ParseDigits(cs) ==
    IF cs = <<>> THEN 0
    ELSE 10 * ParseDigits(SubSeq(cs, 1, Len(cs) - 1)) + DigitVal(cs[Len(cs)])

Raise(e) == [ok |-> FALSE, exc |-> e]
Ok(v) == [ok |-> TRUE, v |-> v]

\* Series.astype(float) on one string of the shape [-]digits[.digits]:
\* the value in cents.  Any other string is a ValueError.
astype_float(cs) ==
    LET neg == cs # <<>> /\ cs[1] = "-"
        body == IF neg THEN Tail(cs) ELSE cs
        dots == {i \in 1..Len(body) : body[i] = "."}
        dot == IF dots = {} THEN Len(body) + 1 ELSE CHOOSE i \in dots : TRUE
        ip == SubSeq(body, 1, dot - 1)
        fp == SubSeq(body, dot + 1, Len(body))
        cents == IF fp = <<>> THEN 0
                 ELSE IF Len(fp) = 1 THEN 10 * ParseDigits(fp)
                 ELSE ParseDigits(fp)
        mag == 100 * ParseDigits(ip) + cents
    IN  IF Cardinality(dots) > 1 \/ ~AllDigits(ip) \/ ~AllDigits(fp)
           \/ Len(ip) + Len(fp) = 0 \/ Len(fp) > 2
        THEN Raise("ValueError")
        ELSE Ok(IF neg THEN -mag ELSE mag)

\* NaT, the missing instant
NaT == [nat |-> TRUE, s |-> 0, ms |-> 0]

\* pd.to_datetime(pd.to_numeric(s), unit="ms") on one string.  A string of
\* digits gives the instant, as whole seconds since the epoch and the
\* milliseconds on top.  to_numeric turns the empty string into NaN, which
\* to_datetime turns into NaT; any other string is a ValueError.
to_datetime_ms(cs) ==
    IF cs = <<>> THEN Ok(NaT)
    ELSE IF ~AllDigits(cs) THEN Raise("ValueError")
    ELSE LET cut == IF Len(cs) > 3 THEN Len(cs) - 3 ELSE 0
         IN  Ok([nat |-> FALSE,
                 s |-> ParseDigits(SubSeq(cs, 1, cut)),
                 ms |-> ParseDigits(SubSeq(cs, cut + 1, Len(cs)))])

----------------------------------------------------------------------------
(* Calendar arithmetic on instants.                                        *)

SecondsPerHour == 3600
SecondsPerDay == 24 * SecondsPerHour

\* .dt.tz_localize("UTC").dt.tz_convert("Asia/Bangkok"): the wall clock of
\* the fixed UTC+7 zone.
BangkokOffsetHours == 7
tz_convert_bangkok(t) ==
    IF t.nat THEN NaT
    ELSE [t EXCEPT !.s = t.s + BangkokOffsetHours * SecondsPerHour]

\* .dt.date, as days since 1970-01-01 (NaT for NaT)
dt_date(t) == IF t.nat THEN NaT ELSE t.s \div SecondsPerDay
\* .dt.hour (NaN for NaT)
dt_hour(t) == IF t.nat THEN NAN ELSE (t.s % SecondsPerDay) \div SecondsPerHour

DayNames == <<"Monday", "Tuesday", "Wednesday", "Thursday", "Friday",
              "Saturday", "Sunday">>
\* .dt.day_name(); 1970-01-01 was a Thursday
dt_day_name(t) == IF t.nat THEN NAN ELSE DayNames[((dt_date(t) + 3) % 7) + 1]

\* strftime("%Y-%m-%d"): the civil date <<year, month, day>> of an instant
strftime_ymd(t) ==
    LET z == dt_date(t) + 719468
        era == z \div 146097
        doe == z - era * 146097
        yoe == (doe - doe \div 1460 + doe \div 36524 - doe \div 146096) \div 365
        doy == doe - (365 * yoe + yoe \div 4 - yoe \div 100)
        mp == (5 * doy + 2) \div 153
        d == doy - (153 * mp + 2) \div 5 + 1
        m == IF mp < 10 THEN mp + 3 ELSE mp - 9
        y == yoe + era * 400 + (IF m <= 2 THEN 1 ELSE 0)
    IN  <<y, m, d>>

\* t1 < t2 on instants
TLess(t1, t2) == t1.s < t2.s \/ (t1.s = t2.s /\ t1.ms < t2.ms)
\* (t2 - t1) in milliseconds
DiffMs(t2, t1) == (t2.s - t1.s) * 1000 + (t2.ms - t1.ms)
\* Timedelta.total_seconds() (NaN when either instant is NaT)
total_seconds(t2, t1) ==
    IF t1.nat \/ t2.nat THEN NAN ELSE Frac(DiffMs(t2, t1), 1000)
\* Timedelta.days: whole days, rounded down
timedelta_days(t2, t1) ==
    LET ms == DiffMs(t2, t1)
    IN  IF ms >= 0 THEN ms \div (SecondsPerDay * 1000)
        ELSE -((-ms + SecondsPerDay * 1000 - 1) \div (SecondsPerDay * 1000))

----------------------------------------------------------------------------
(* Python values the code branches on.                                     *)

\* None, or a value; a dict is a function from its keys
None == [none |-> TRUE]
Some(v) == [none |-> FALSE, v |-> v]
\* truthiness of "x" for x a dict or None
Truthy(x) == ~x.none /\ DOMAIN x.v # {}
\* d.get(key, default)
dict_get(d, key, default) == IF key \in DOMAIN d THEN d[key] ELSE default

\* money written in whole units, as cents
Units(n) == 100 * n

\* a number of cents, or a str
NumVal(v) == [t |-> "num", v |-> v]
StrVal(v) == [t |-> "str", v |-> v]

----------------------------------------------------------------------------
(* Column helpers over a frame: a sequence of rows in input order.         *)

\* mutant: a zero-P&L trade counted as a win
Winners_zero_is_win(df) == SelectSeq(df, LAMBDA r : r.closedPnl >= 0)
\* df[df["closedPnl"] > 0] and df[df["closedPnl"] < 0]
Winners(df) == SelectSeq(df, LAMBDA r : r.closedPnl > 0)
\* mutant: a zero-P&L trade counted as a loss
Losers_zero_is_loss(df) == SelectSeq(df, LAMBDA r : r.closedPnl <= 0)
Losers(df) == SelectSeq(df, LAMBDA r : r.closedPnl < 0)

RECURSIVE SumPnl(_)
\* Series.sum() of closedPnl, in cents (0 for an empty frame)
SumPnl(df) == IF df = <<>> THEN 0 ELSE df[1].closedPnl + SumPnl(Tail(df))

\* Series.mean() of closedPnl over a non-empty frame
MeanPnl(df) == Frac(SumPnl(df), Len(df))

\* Series.max() of closedPnl over a non-empty frame
MaxPnl(df) ==
    CHOOSE m \in {df[i].closedPnl : i \in 1..Len(df)} :
        \A i \in 1..Len(df) : df[i].closedPnl <= m

RECURSIVE SumDurMs(_)
SumDurMs(df) == IF df = <<>> THEN 0 ELSE df[1].duration_ms + SumDurMs(Tail(df))

\* the rows whose duration is a number
WithDuration(df) == SelectSeq(df, LAMBDA r : ~r.createdTime.nat /\ ~r.updatedTime.nat)
\* the rows whose createdTime is an instant
WithCreated(df) == SelectSeq(df, LAMBDA r : ~r.createdTime.nat)

\* Series.mean() of duration_hours over a non-empty frame: NaN durations
\* are skipped, and the mean of none is NaN
MeanDurationHours(df) ==
    LET valid == WithDuration(df)
    IN  IF valid = <<>> THEN NAN
        ELSE Frac(SumDurMs(valid), 1000 * SecondsPerHour * Len(valid))

\* Series.min() / Series.max() of createdTime over a non-empty frame: NaT
\* is skipped, and the extreme of none is NaT
MinCreated(df) ==
    LET ts == {df[i].createdTime : i \in 1..Len(df)} \ {NaT}
    IN  IF ts = {} THEN NaT ELSE CHOOSE t \in ts : \A u \in ts : ~TLess(u, t)
MaxCreated(df) ==
    LET ts == {df[i].createdTime : i \in 1..Len(df)} \ {NaT}
    IN  IF ts = {} THEN NaT ELSE CHOOSE t \in ts : \A u \in ts : ~TLess(t, u)

\* Series.unique(): the distinct values in order of first appearance
RECURSIVE Unique(_)
Unique(xs) ==
    IF xs = <<>> THEN <<>>
    ELSE LET init == Unique(SubSeq(xs, 1, Len(xs) - 1))
             x == xs[Len(xs)]
         IN  IF \E i \in 1..Len(init) : init[i] = x THEN init
             ELSE Append(init, x)

\* mutant: the last key holding the largest mean is returned
idxmax_last(keys, mean) ==
    LET best == CHOOSE i \in 1..Len(keys) :
                    /\ \A j \in 1..Len(keys) : FLeq(mean[keys[j]], mean[keys[i]])
                    /\ \A j \in (i + 1)..Len(keys) : FLess(mean[keys[j]], mean[keys[i]])
    IN  keys[best]
\* idxmax / idxmin of a grouped mean: `keys` lists the group keys in the
\* order groupby sorts them, `mean` maps each key to its mean; the first key
\* holding the extreme value is returned.
idxmax(keys, mean) ==
    LET best == CHOOSE i \in 1..Len(keys) :
                    /\ \A j \in 1..Len(keys) : FLeq(mean[keys[j]], mean[keys[i]])
                    /\ \A j \in 1..(i - 1) : FLess(mean[keys[j]], mean[keys[i]])
    IN  keys[best]
idxmin(keys, mean) ==
    LET best == CHOOSE i \in 1..Len(keys) :
                    /\ \A j \in 1..Len(keys) : FLeq(mean[keys[i]], mean[keys[j]])
                    /\ \A j \in 1..(i - 1) : FLess(mean[keys[i]], mean[keys[j]])
    IN  keys[best]

\* the keys of a sequence, as a set
KeySet(keys) == {keys[i] : i \in 1..Len(keys)}

\* the keys of df.groupby(col), sorted: `order` is the sort order of the
\* possible keys
GroupKeys(order, present) == SelectSeq(order, LAMBDA k : k \in present)

Hours == [i \in 1..24 |-> i - 1]
\* day names as groupby sorts them: as strings, alphabetically
DayNamesSorted == <<"Friday", "Monday", "Saturday", "Sunday", "Thursday",
                    "Tuesday", "Wednesday">>

----------------------------------------------------------------------------
(* prepare_trading_data_summary                                            *)

\* One row of the summary's frame: the type conversions and derived
\* columns.  createdTime stays the naive (UTC) instant to_datetime gives.
summary_row(r) ==
    LET created == to_datetime_ms(r.createdTime).v
        updated == to_datetime_ms(r.updatedTime).v
        pnl == astype_float(r.closedPnl).v
    IN  [symbol |-> r.symbol,
         closedPnl |-> pnl,
         createdTime |-> created,
         updatedTime |-> updated,
         \* the duration in milliseconds; skipped by every mean when NaN
         duration_ms |-> IF created.nat \/ updated.nat THEN 0
                         ELSE DiffMs(updated, created),
         duration_hours |-> IF created.nat \/ updated.nat THEN NAN
                            ELSE Frac(DiffMs(updated, created), 1000 * SecondsPerHour),
         duration_seconds |-> total_seconds(updated, created),
         date |-> dt_date(created),
         hour |-> dt_hour(created),
         day_of_week |-> dt_day_name(created),
         profit_flag |-> pnl > 0]

\* The frame the summary is computed from, or the exception building it
\* raises.  pd.DataFrame([]) has no columns, so df["closedPnl"] is a
\* KeyError; the except branch runs the same statements again and the
\* exception leaves the function.
summary_df(data) ==
    IF data = <<>> THEN Raise("KeyError")
    ELSE IF \E i \in 1..Len(data) : ~astype_float(data[i].closedPnl).ok
    THEN Raise("ValueError")
    ELSE IF \E i \in 1..Len(data) : ~to_datetime_ms(data[i].createdTime).ok
    THEN Raise("ValueError")
    ELSE IF \E i \in 1..Len(data) : ~to_datetime_ms(data[i].updatedTime).ok
    THEN Raise("ValueError")
    ELSE Ok([i \in 1..Len(data) |-> summary_row(data[i])])

\* win_rate = win_count / total_trades if total_trades > 0 else 0
win_rate_of(win_count, total_trades) ==
    IF total_trades > 0 THEN Frac(win_count, total_trades) ELSE Num(0)

\* avg_win / avg_loss: the mean of the winners (losers), 0 without any
avg_win_of(df) == IF Len(Winners(df)) > 0 THEN MeanPnl(Winners(df)) ELSE Num(0)
avg_loss_of(df) == IF Len(Losers(df)) > 0 THEN MeanPnl(Losers(df)) ELSE Num(0)

\* standard_risk = STANDARD_RISK, replaced by the user's RISK_MANAGEMENT
\* entry (default 9) when the user input has one
DefaultStandardRisk == Units(9)
standard_risk_of(ui, env) ==
    IF Truthy(ui) /\ "RISK_MANAGEMENT" \in DOMAIN ui.v
    THEN NumVal(dict_get(ui.v.RISK_MANAGEMENT, "standard_risk_per_trade",
                         DefaultStandardRisk))
    ELSE StrVal(env)

\* mutant: only a risk of exactly 0 is guarded
r_multiple_nonzero(x, standard_risk) ==
    IF standard_risk # 0 THEN FDiv(x, Num(standard_risk)) ELSE Num(0)
\* x / standard_risk if standard_risk > 0 else 0
r_multiple(x, standard_risk) ==
    IF standard_risk > 0 THEN FDiv(x, Num(standard_risk)) ELSE Num(0)

\* mutant: the quotient without abs()
profit_factor_of_signed(df) ==
    IF SumPnl(Losers(df)) # 0
    THEN FDiv(Num(SumPnl(Winners(df))), Num(SumPnl(Losers(df))))
    ELSE INF
\* abs(sum of wins / sum of losses) if the sum of losses != 0 else inf
profit_factor_of(df) ==
    IF SumPnl(Losers(df)) # 0
    THEN FAbs(FDiv(Num(SumPnl(Winners(df))), Num(SumPnl(Losers(df)))))
    ELSE INF

\* abs(avg_win / avg_loss) if avg_loss != 0 else inf
reward_risk_ratio_of(avg_win, avg_loss) ==
    IF avg_loss # Num(0) THEN FAbs(FDiv(avg_win, avg_loss)) ELSE INF

\* mutant: avg_profit taken over the symbol's winning trades
symbol_performance_of_winners(df) ==
    LET syms == Unique([i \in 1..Len(df) |-> df[i].symbol])
    IN  [j \in 1..Len(syms) |->
            LET symbol_df == SelectSeq(df, LAMBDA r : r.symbol = syms[j])
            IN  [symbol |-> syms[j],
                 total_pnl |-> SumPnl(symbol_df),
                 trade_count |-> Len(symbol_df),
                 win_rate |-> Frac(Len(Winners(symbol_df)), Len(symbol_df)),
                 avg_profit |-> avg_win_of(symbol_df)]]
\* symbol_performance, in the order the dict is filled
symbol_performance_of(df) ==
    LET syms == Unique([i \in 1..Len(df) |-> df[i].symbol])
    IN  [j \in 1..Len(syms) |->
            LET symbol_df == SelectSeq(df, LAMBDA r : r.symbol = syms[j])
            IN  [symbol |-> syms[j],
                 total_pnl |-> SumPnl(symbol_df),
                 trade_count |-> Len(symbol_df),
                 win_rate |-> Frac(Len(Winners(symbol_df)), Len(symbol_df)),
                 avg_profit |-> MeanPnl(symbol_df)]]

\* df.groupby("hour")["closedPnl"]; rows whose key is NaN are in no group
HourGroup(df, h) == SelectSeq(WithCreated(df), LAMBDA r : r.hour = h)
HourKeys(df) ==
    GroupKeys(Hours, {WithCreated(df)[i].hour : i \in 1..Len(WithCreated(df))})
\* df.groupby("day_of_week")["closedPnl"]
DayGroup(df, d) == SelectSeq(WithCreated(df), LAMBDA r : r.day_of_week = d)
DayKeys(df) ==
    GroupKeys(DayNamesSorted,
              {WithCreated(df)[i].day_of_week : i \in 1..Len(WithCreated(df))})

\* .agg(["mean", "sum", "count"]) of one group
agg_of(g) == [mean |-> MeanPnl(g), sum |-> SumPnl(g), count |-> Len(g)]

time_patterns_of(df) ==
    LET hours == HourKeys(df)
        days == DayKeys(df)
        wins == Winners(df)
        losses == Losers(df)
    IN  [best_hour |-> IF hours # <<>>
                       THEN Some(idxmax(hours, [h \in KeySet(hours) |-> MeanPnl(HourGroup(df, h))]))
                       ELSE None,
         worst_hour |-> IF hours # <<>>
                        THEN Some(idxmin(hours, [h \in KeySet(hours) |-> MeanPnl(HourGroup(df, h))]))
                        ELSE None,
         best_day |-> IF days # <<>>
                      THEN Some(idxmax(days, [d \in KeySet(days) |-> MeanPnl(DayGroup(df, d))]))
                      ELSE None,
         worst_day |-> IF days # <<>>
                       THEN Some(idxmin(days, [d \in KeySet(days) |-> MeanPnl(DayGroup(df, d))]))
                       ELSE None,
         win_duration_hours |-> IF Len(wins) > 0 THEN MeanDurationHours(wins)
                                ELSE Num(0),
         loss_duration_hours |-> IF Len(losses) > 0 THEN MeanDurationHours(losses)
                                 ELSE Num(0),
         hourly_performance |->
             [j \in 1..Len(hours) |-> [key |-> hours[j]] @@ agg_of(HourGroup(df, hours[j]))],
         daily_performance |->
             [j \in 1..Len(days) |-> [key |-> days[j]] @@ agg_of(DayGroup(df, days[j]))]]

period_of(df) ==
    [start |-> strftime_ymd(MinCreated(df)),
     end |-> strftime_ymd(MaxCreated(df)),
     days |-> timedelta_days(MaxCreated(df), MinCreated(df)) + 1]

\* user_reflections, added when the user input is truthy
user_reflections_of(ui) ==
    IF Truthy(ui)
    THEN Some([strategy |-> dict_get(ui.v, "strategy", <<>>),
               psychological_issues |-> dict_get(ui.v, "psychology", <<>>),
               PERSONAL_REFLECTION |-> dict_get(ui.v, "reflection", <<>>),
               IMPROVEMENT_GOALS |-> dict_get(ui.v, "improvements", <<>>)])
    ELSE None

\* mutant: the records are popped off the caller's list as the frame is built
records_after_frame_popped(data) == <<>>
\* The caller's list after df = pd.DataFrame(pnl_data): the frame holds its
\* own copy of the values, every conversion assigns a column of df, and the
\* list and its dicts are as they were.
records_after_frame(data) == data

\* The whole function: the summary dict, or the exception that leaves it.
prepare_trading_data_summary(data, ui, env) ==
    LET frame == summary_df(data)
        df == frame.v
        win_count == Len(Winners(df))
        loss_count == Len(Losers(df))
        total_trades == Len(df)
        avg_win == avg_win_of(df)
        avg_loss == avg_loss_of(df)
        standard_risk == standard_risk_of(ui, env)
    IN  IF ~frame.ok THEN frame
        ELSE IF standard_risk.t = "str" THEN Raise("TypeError")
        \* NaT.strftime raises: no createdTime of the frame is an instant
        ELSE IF MinCreated(df).nat THEN Raise("ValueError")
        ELSE Ok([period |-> period_of(df),
                 overall_performance |->
                    [total_pnl |-> SumPnl(df),
                     win_rate |-> win_rate_of(win_count, total_trades),
                     total_trades |-> total_trades,
                     winning_trades |-> win_count,
                     losing_trades |-> loss_count,
                     profit_factor |-> profit_factor_of(df)],
                 risk_reward |->
                    [avg_win |-> avg_win,
                     avg_loss |-> avg_loss,
                     avg_win_r |-> r_multiple(avg_win, standard_risk.v),
                     avg_loss_r |-> r_multiple(FAbs(avg_loss), standard_risk.v),
                     reward_risk_ratio |-> reward_risk_ratio_of(avg_win, avg_loss)],
                 symbols |-> symbol_performance_of(df),
                 time_patterns |-> time_patterns_of(df),
                 user_reflections |-> user_reflections_of(ui)])

----------------------------------------------------------------------------
(* _analyze_stop_loss_data and _create_rr_section                          *)

\* full_stop_threshold = 0.05, in percent
FullStopThresholdPct == 5

\* mutant: the band without its end points
in_full_stop_band_open(pnl, standard_risk) ==
    /\ 100 * Abs(pnl) > standard_risk * (100 - FullStopThresholdPct)
    /\ 100 * Abs(pnl) < standard_risk * (100 + FullStopThresholdPct)

\* full_stop_min <= abs(closedPnl) <= full_stop_max, with
\* full_stop_min = standard_risk * (1 - 0.05) and
\* full_stop_max = standard_risk * (1 + 0.05)
in_full_stop_band(pnl, standard_risk) ==
    /\ 100 * Abs(pnl) >= standard_risk * (100 - FullStopThresholdPct)
    /\ 100 * Abs(pnl) <= standard_risk * (100 + FullStopThresholdPct)

\* mutant: trades of closedPnl = 0 taken as losing trades
analyze_stop_loss_data_zero_is_loss(df, standard_risk) ==
    LET losing_trades == SelectSeq(df, LAMBDA r : r.closedPnl <= 0)
        full_stops ==
            Len(SelectSeq(losing_trades,
                          LAMBDA r : in_full_stop_band(r.closedPnl, standard_risk)))
    IN  [full_stops |-> full_stops,
         partial_stops |-> Len(losing_trades) - full_stops]
\* (full_stops, partial_stops)
analyze_stop_loss_data(df, standard_risk) ==
    LET losing_trades == Losers(df)
        full_stops ==
            Len(SelectSeq(losing_trades,
                          LAMBDA r : in_full_stop_band(r.closedPnl, standard_risk)))
    IN  [full_stops |-> full_stops,
         partial_stops |-> Len(losing_trades) - full_stops]

\* The values _create_rr_section formats into RR_SECTION_TEMPLATE.
create_rr_section(standard_risk, df) ==
    LET avg_win_usd == avg_win_of(df)
        avg_loss_usd == FAbs(avg_loss_of(df))
        biggest_win_usd == IF Len(Winners(df)) > 0 THEN Num(MaxPnl(Winners(df)))
                           ELSE Num(0)
        stops == analyze_stop_loss_data(df, standard_risk)
    IN  [avg_win_r |-> r_multiple(avg_win_usd, standard_risk),
         avg_win_usd |-> avg_win_usd,
         avg_loss_r |-> r_multiple(avg_loss_usd, standard_risk),
         avg_loss_usd |-> avg_loss_usd,
         biggest_win_r |-> r_multiple(biggest_win_usd, standard_risk),
         biggest_win_usd |-> biggest_win_usd,
         full_stops |-> stops.full_stops,
         partial_stops |-> stops.partial_stops,
         standard_risk |-> standard_risk]

----------------------------------------------------------------------------
(* generate_html_report and generate_html_with_drive_urls                  *)

\* One row of the report's frame: createdTime and updatedTime are moved to
\* the UTC+7 wall clock before the date and the hour are taken.
report_row(r) ==
    LET created == tz_convert_bangkok(to_datetime_ms(r.createdTime).v)
        updated == tz_convert_bangkok(to_datetime_ms(r.updatedTime).v)
        pnl == astype_float(r.closedPnl).v
    IN  [symbol |-> r.symbol,
         closedPnl |-> pnl,
         createdTime |-> created,
         updatedTime |-> updated,
         \* the duration in milliseconds; skipped by every mean when NaN
         duration_ms |-> IF created.nat \/ updated.nat THEN 0
                         ELSE DiffMs(updated, created),
         duration_seconds |-> total_seconds(updated, created),
         duration_hours |-> IF created.nat \/ updated.nat THEN NAN
                            ELSE Frac(DiffMs(updated, created), 1000 * SecondsPerHour),
         date |-> dt_date(created),
         hour_of_day |-> dt_hour(created),
         profit_flag |-> pnl > 0]

\* The frame of a non-empty batch, or the ValueError of a conversion.
report_df(data) ==
    IF \E i \in 1..Len(data) : ~astype_float(data[i].closedPnl).ok
    THEN Raise("ValueError")
    ELSE IF \E i \in 1..Len(data) : ~to_datetime_ms(data[i].createdTime).ok
    THEN Raise("ValueError")
    ELSE IF \E i \in 1..Len(data) : ~to_datetime_ms(data[i].updatedTime).ok
    THEN Raise("ValueError")
    ELSE Ok([i \in 1..Len(data) |-> report_row(data[i])])

\* symbol_stats, in the order the dict is filled
symbol_stats_of(df) ==
    LET syms == Unique([i \in 1..Len(df) |-> df[i].symbol])
    IN  [j \in 1..Len(syms) |->
            LET symbol_df == SelectSeq(df, LAMBDA r : r.symbol = syms[j])
                wins == Len(Winners(symbol_df))
                total == Len(symbol_df)
            IN  [symbol |-> syms[j],
                 win_rate |-> IF total > 0 THEN Frac(100 * wins, total) ELSE Num(0),
                 avg_pnl |-> MeanPnl(symbol_df),
                 total_trades |-> total,
                 total_pnl |-> SumPnl(symbol_df)]]

\* mutant: a sort that puts a row before the earlier rows of equal total_pnl
RECURSIVE sorted_by_total_pnl_unstable(_)
sorted_by_total_pnl_unstable(rows) ==
    IF rows = <<>> THEN <<>>
    ELSE LET init == sorted_by_total_pnl_unstable(SubSeq(rows, 1, Len(rows) - 1))
             x == rows[Len(rows)]
             k == Cardinality({i \in 1..Len(init) : init[i].total_pnl > x.total_pnl})
         IN  SubSeq(init, 1, k) \o <<x>> \o SubSeq(init, k + 1, Len(init))
\* sorted(symbol_stats.items(), key=total_pnl, reverse=True): a stable sort,
\* rows of equal total_pnl keep the order of the dict
RECURSIVE sorted_by_total_pnl(_)
sorted_by_total_pnl(rows) ==
    IF rows = <<>> THEN <<>>
    ELSE LET init == sorted_by_total_pnl(SubSeq(rows, 1, Len(rows) - 1))
             x == rows[Len(rows)]
             k == Cardinality({i \in 1..Len(init) : init[i].total_pnl >= x.total_pnl})
         IN  SubSeq(init, 1, k) \o <<x>> \o SubSeq(init, k + 1, Len(init))

\* the overall metrics of template_params
template_params_of(df) ==
    LET total_pnl == SumPnl(df)
    IN  [period_start |-> strftime_ymd(MinCreated(df)),
         period_end |-> strftime_ymd(MaxCreated(df)),
         total_pnl |-> total_pnl,
         pnl_class |-> IF total_pnl > 0 THEN "positive" ELSE "negative",
         win_rate |-> Frac(100 * Len(Winners(df)), Len(df)),
         winning_trades |-> Len(Winners(df)),
         losing_trades |-> Len(Losers(df)),
         total_trades |-> Len(df),
         avg_win |-> avg_win_of(df),
         avg_loss_abs |-> FAbs(avg_loss_of(df))]

\* df.groupby("hour_of_day")["closedPnl"]
HourOfDayGroup(df, h) == SelectSeq(WithCreated(df), LAMBDA r : r.hour_of_day = h)
HourOfDayKeys(df) ==
    GroupKeys(Hours, {WithCreated(df)[i].hour_of_day : i \in 1..Len(WithCreated(df))})
\* hourly_performance.loc[hourly_performance["mean"].idxmax(), "hour_of_day"]
best_hour_of(df) ==
    idxmax(HourOfDayKeys(df),
           [h \in KeySet(HourOfDayKeys(df)) |-> MeanPnl(HourOfDayGroup(df, h))])

avg_win_duration_of(df) ==
    IF Len(Winners(df)) > 0 THEN MeanDurationHours(Winners(df)) ELSE Num(0)
avg_loss_duration_of(df) ==
    IF Len(Losers(df)) > 0 THEN MeanDurationHours(Losers(df)) ELSE Num(0)

\* a > b * 1.5
exceeds_one_and_a_half(a, b) == FLess(FMul(b, Frac(3, 2)), a)

\* whether the holding-time recommendation is added: both branches do
\* recommendation_items += (str, str), a TypeError on a str
duration_recommendation(df) ==
    \/ exceeds_one_and_a_half(avg_win_duration_of(df), avg_loss_duration_of(df))
    \/ exceeds_one_and_a_half(avg_loss_duration_of(df), avg_win_duration_of(df))

\* user_data.get("RISK_MANAGEMENT", {}).get("standard_risk_per_trade", 9)
report_standard_risk(user_data) ==
    dict_get(dict_get(user_data.v, "RISK_MANAGEMENT", <<>>),
             "standard_risk_per_trade", DefaultStandardRisk)

\* user_sections: the R-multiple section, when user_data is truthy
user_sections_of(user_data, df) ==
    IF Truthy(user_data)
    THEN Some(create_rr_section(report_standard_risk(user_data), df))
    ELSE None

\* generate_html_report: nothing is written for an empty batch; otherwise
\* every recommendation is added with recommendation_items += (str, ...),
\* a TypeError, and the best-symbol one is added for every non-empty frame.
generate_html_report(data, user_data) ==
    LET frame == report_df(data)
        df == frame.v
        params == template_params_of(df)
        symbol_stats == symbol_stats_of(df)
    IN  IF data = <<>> THEN Ok([written |-> FALSE])
        ELSE IF ~frame.ok THEN frame
        ELSE IF MinCreated(df).nat THEN Raise("ValueError")
        ELSE IF FLess(params.win_rate, Num(50)) THEN Raise("TypeError")
        ELSE IF symbol_stats # <<>> THEN Raise("TypeError")
        ELSE IF HourOfDayKeys(df) # <<>> THEN Raise("TypeError")
        ELSE IF duration_recommendation(df) THEN Raise("TypeError")
        ELSE Ok([written |-> TRUE,
                 params |-> params,
                 symbol_stats_rows |-> sorted_by_total_pnl(symbol_stats),
                 best_hour |-> Some(best_hour_of(df)),
                 user_sections |-> user_sections_of(user_data, df)])

\* generate_html_with_drive_urls: the same metrics; only the holding-time
\* recommendation is added with += (str, str).
generate_html_with_drive_urls(data, user_data) ==
    LET frame == report_df(data)
        df == frame.v
    IN  IF data = <<>> THEN Ok([written |-> FALSE])
        ELSE IF ~frame.ok THEN frame
        ELSE IF MinCreated(df).nat THEN Raise("ValueError")
        ELSE IF duration_recommendation(df) THEN Raise("TypeError")
        ELSE Ok([written |-> TRUE,
                 params |-> template_params_of(df),
                 symbol_stats_rows |-> sorted_by_total_pnl(symbol_stats_of(df)),
                 best_hour |-> IF HourOfDayKeys(df) # <<>> THEN Some(best_hour_of(df))
                               ELSE None,
                 user_sections |-> user_sections_of(user_data, df)])

----------------------------------------------------------------------------
(* models/trading_data.py: convert_raw_to_processed, and the optional      *)
(* numeric columns of the report's frame.                                  *)

\* the optional numeric fields, in the order both functions convert them
NumericFields == <<"avgEntryPrice", "avgExitPrice", "qty", "closedSize",
                   "cumEntryValue", "cumExitValue", "leverage">>

\* The optional fields of a raw record: r.numeric maps each field to None
\* (the key is missing) or to Some(string).
has_column(data, f) == \E i \in 1..Len(data) : ~data[i].numeric[f].none

\* df[f].astype(float) raises: KeyError when no record holds the key,
\* ValueError when a value is not a number string
astype_float_fails(data, f) ==
    \/ ~has_column(data, f)
    \/ \E i \in 1..Len(data) :
          ~data[i].numeric[f].none /\ ~astype_float(data[i].numeric[f].v).ok

\* generate_html_report's try block: the fields are converted in order
\* inside one try, so the first KeyError or ValueError ends the block and
\* leaves every later column as it was.  A cell is None (no such column),
\* NaN (the key is missing in this record), a float, or the raw str.
report_numeric_columns(data) ==
    LET failing == {k \in 1..Len(NumericFields) :
                       astype_float_fails(data, NumericFields[k])}
        stop == IF failing = {} THEN Len(NumericFields) + 1
                ELSE CHOOSE k \in failing : \A j \in failing : k <= j
    IN  [k \in 1..Len(NumericFields) |->
            [i \in 1..Len(data) |->
                LET cell == data[i].numeric[NumericFields[k]]
                IN  IF ~has_column(data, NumericFields[k]) THEN None
                    ELSE IF cell.none THEN Some(NAN)
                    ELSE IF k < stop THEN Some(NumVal(astype_float(cell.v).v))
                    ELSE Some(StrVal(cell.v))]]

\* pd.to_numeric(df[f], errors="coerce") on one cell of an existing column
to_numeric_coerce(cell) ==
    IF cell.none THEN NAN
    ELSE IF astype_float(cell.v).ok THEN NumVal(astype_float(cell.v).v)
    ELSE NAN

\* Creating the class ProcessedTradeData.  Its field `date: date = Field(...)`
\* assigns the FieldInfo to the name `date` before the annotation `date` is
\* evaluated, so the annotation is the FieldInfo itself and pydantic refuses
\* the class: importing the module raises, and nothing after line 59 of it
\* is ever defined.
ProcessedTradeData == Raise("PydanticUserError")

\* one row of convert_raw_to_processed's frame
processed_row(data, r) ==
    summary_row(r) @@
    [numeric |-> [k \in 1..Len(NumericFields) |->
                     IF has_column(data, NumericFields[k])
                     THEN Some(to_numeric_coerce(r.numeric[NumericFields[k]]))
                     ELSE None]]

\* convert_raw_to_processed, called through its module
convert_raw_to_processed(raw_data) ==
    LET frame == summary_df(raw_data)
    IN  IF ~ProcessedTradeData.ok THEN ProcessedTradeData
        ELSE IF ~frame.ok THEN frame
        ELSE Ok([i \in 1..Len(raw_data) |-> processed_row(raw_data, raw_data[i])])

----------------------------------------------------------------------------
(* TradingAnalyzer.analyze_trading_data and _process_response.  The        *)
(* content of a reply is a sequence of pieces: the fence "```json", the    *)
(* fence "```", a newline, a JSON object and a line of prose.              *)

\* the texts "```json" and "```" (a string of the model holds no backquote)
FenceJson == "[fence]json"
Fence == "[fence]"
Newline == "\n"
\* JSON texts: an object with the analysis, an object with an "error" key,
\* and the value null
AnalysisJson == "{\"Overall Performance Assessment\": \"...\"}"
ErrorJson == "{\"error\": \"...\"}"
NullJson == "null"
Prose == "Here is my analysis."
JsonTexts == {AnalysisJson, ErrorJson, NullJson}
Pieces == {FenceJson, Fence, Newline, AnalysisJson, ErrorJson, NullJson, Prose}

\* the places of the pieces of `content` that hold the text "```"
fence_places(content) ==
    {i \in 1..Len(content) : content[i] \in {Fence, FenceJson}}

\* text.split(sep)[1].split("```")[0], for sep "```json" or "```": what
\* follows the first sep, up to the next "```" (which "```json" holds too)
between_fences(content, seps) ==
    LET first == CHOOSE i \in 1..Len(content) :
                    /\ content[i] \in seps
                    /\ \A j \in 1..(i - 1) : content[j] \notin seps
        closing == {j \in fence_places(content) : j > first}
        last == IF closing = {} THEN Len(content) + 1
                ELSE CHOOSE j \in closing : \A k \in closing : j <= k
    IN  SubSeq(content, first + 1, last - 1)

\* mutant: the fences are not looked for, the whole content is parsed
json_str_of_whole(content) == content
\* json_str: the inside of the first "```json" block, else of the first
\* "```" block, else the whole content
json_str_of(content) ==
    IF \E i \in 1..Len(content) : content[i] = FenceJson
    THEN between_fences(content, {FenceJson})
    ELSE IF \E i \in 1..Len(content) : content[i] = Fence
    THEN between_fences(content, {Fence, FenceJson})
    ELSE content

\* the value a JSON text parses to: a dict, or None for null
parsed_json(text) ==
    IF text = ErrorJson THEN [error |-> "..."]
    ELSE IF text = NullJson THEN None
    ELSE [assessment |-> "..."]

\* json.loads(json_str): white space around the value is skipped; anything
\* but one JSON value is a JSONDecodeError
json_loads(json_str) ==
    LET value == SelectSeq(json_str, LAMBDA t : t # Newline)
    IN  IF Len(value) = 1 /\ value[1] \in JsonTexts THEN Ok(parsed_json(value[1]))
        ELSE Raise("JSONDecodeError")

\* The answers of the API.  A response body is a dict: with choices[0]
\* .message.content a str or null, or without any choice.
ResponseWith(content) == [choices |-> <<[message |-> [content |-> content]]>>]
ResponseWithoutChoices == [choices |-> <<>>]

\* _process_response: the parsed JSON, the raw text when it does not parse,
\* an error dict when the body has no content to read (KeyError,
\* IndexError, or the TypeError of `in` on None)
process_response(response) ==
    IF response.choices = <<>> \/ response.choices[1].message.content.none
    THEN [error |-> "Failed to process response", raw_response |-> response]
    ELSE LET content == response.choices[1].message.content.v
             analysis == json_loads(json_str_of(content))
         IN  IF analysis.ok THEN analysis.v ELSE [raw_analysis |-> content]

\* _call_openrouter_api: requests.post raises, or the status is not 200
\* and the function raises, or the body is returned
call_openrouter_api(answer) ==
    IF answer.kind = "raises" THEN Raise("RequestException")
    ELSE IF answer.status # 200 THEN Raise("Exception")
    ELSE Ok(answer.body)

\* what analyze_trading_data returns once the API has answered
analysis_of(answer) ==
    LET response == call_openrouter_api(answer)
    IN  IF response.ok THEN process_response(response.v)
        ELSE [error |-> "API call failed"]

\* the dict returned without an API key
NoApiKeyError == [error |-> "OpenRouter API key not found"]

----------------------------------------------------------------------------
(* The inputs.                                                             *)

Symbols == {"BTCUSDT", "ETHUSDT"}

\* closedPnl strings: "-9.5", "0", "18"
PnlStrings == {<<"-", "9", ".", "5">>,
               <<"0">>,
               <<"1", "8">>}

\* 2024-01-01T23:30:00Z and 2024-01-02T09:00:00Z, in milliseconds
T_2330Z == <<"1", "7", "0", "4", "1", "5", "1", "8", "0", "0", "0", "0", "0">>
T_2330Z_plus_2h == <<"1", "7", "0", "4", "1", "5", "9", "0", "0", "0", "0", "0", "0">>
T_0900Z == <<"1", "7", "0", "4", "1", "8", "6", "0", "0", "0", "0", "0", "0">>

\* <<createdTime, updatedTime>>
TimePairs == {<<T_2330Z, T_2330Z>>, <<T_2330Z, T_2330Z_plus_2h>>,
              <<T_0900Z, T_0900Z>>}

RawTrade(symbol, pnl, times) ==
    [symbol |-> symbol, closedPnl |-> pnl,
     createdTime |-> times[1], updatedTime |-> times[2]]

RawTrades == {RawTrade(s, p, t) : s \in Symbols, p \in PnlStrings, t \in TimePairs}

\* the user bundles: None; a dict without RISK_MANAGEMENT; RISK_MANAGEMENT
\* without standard_risk_per_trade; RISK_MANAGEMENT with a risk of 0 and 9
RiskManagement(risk) == [standard_risk_per_trade |-> risk]
UserBundle(rm) == Some([strategy |-> <<"trend">>, RISK_MANAGEMENT |-> rm])
UserInputs ==
    {None,
     Some([strategy |-> <<"trend">>]),
     UserBundle(<<>>),
     UserBundle(RiskManagement(Units(0))),
     UserBundle(RiskManagement(Units(9)))}

\* STANDARD_RISK unset, and set to 9, in the environment
EnvValues == {"", "9"}

\* closedPnl strings around the full-stop band of a risk of 10:
\* "-9.5", "-9.49", "-10.5", "-10.51", and "0", "18", "26"
StopPnlStrings == {<<"-", "9", ".", "5">>,
                   <<"-", "9", ".", "4", "9">>,
                   <<"-", "1", "0", ".", "5">>,
                   <<"-", "1", "0", ".", "5", "1">>,
                   <<"0">>,
                   <<"1", "8">>,
                   <<"2", "6">>}
StopTrades == {RawTrade("BTCUSDT", p, <<T_0900Z, T_0900Z>>) : p \in StopPnlStrings}
StopRisks == {Units(0) - Units(9), Units(0), Units(9), Units(10)}

BoundedSeq(S, n) == UNION {[1..k -> S] : k \in 0..n}

\* 2024-01-04T09:00:00Z, a Thursday (T_2330Z is a Monday, T_0900Z a Tuesday)
T_0900Z_plus_2d == <<"1", "7", "0", "4", "3", "5", "8", "8", "0", "0", "0", "0", "0">>
\* trades opened and closed at once on a Monday, a Tuesday and a Thursday
WeekTrades == {RawTrade("BTCUSDT", p, <<t, t>>) :
                  p \in PnlStrings, t \in {T_2330Z, T_0900Z, T_0900Z_plus_2d}}

\* The grouping batch: three BTCUSDT trades (+10, -5, +3) and two ETHUSDT
\* trades (-2, -2), with the BTCUSDT trades first and with them last.
ScenarioTrade(symbol, pnl) == RawTrade(symbol, pnl, <<T_0900Z, T_0900Z>>)
BtcScenarioTrades == <<ScenarioTrade("BTCUSDT", <<"1", "0">>),
                       ScenarioTrade("BTCUSDT", <<"-", "5">>),
                       ScenarioTrade("BTCUSDT", <<"3">>)>>
EthScenarioTrades == <<ScenarioTrade("ETHUSDT", <<"-", "2">>),
                       ScenarioTrade("ETHUSDT", <<"-", "2">>)>>
GroupingScenarios == {BtcScenarioTrades \o EthScenarioTrades,
                      EthScenarioTrades \o BtcScenarioTrades}

\* The batches of the normalizer.  Timestamps: createdTime empty, or not a
\* number; updatedTime before createdTime; closedPnl not a number.
BadNumber == <<"a", "b", "c">>
NoOptionalFields == [k \in {NumericFields[j] : j \in 1..Len(NumericFields)} |-> None]
AllOptionalFields ==
    [k \in {NumericFields[j] : j \in 1..Len(NumericFields)} |-> Some(<<"2">>)]
NormalizerTrade(pnl, times, numeric) ==
    RawTrade("BTCUSDT", pnl, times) @@ [numeric |-> numeric]
TimedTrades ==
    {NormalizerTrade(<<"1", "8">>, t, NoOptionalFields) :
        t \in {<<T_0900Z, T_0900Z>>, <<T_2330Z, T_2330Z_plus_2h>>,
               <<T_2330Z_plus_2h, T_2330Z>>, <<<<>>, T_0900Z>>,
               <<T_0900Z, <<>>>>, <<BadNumber, T_0900Z>>}}
    \cup {NormalizerTrade(BadNumber, <<T_0900Z, T_0900Z>>, NoOptionalFields)}
\* Optional fields: all present; avgEntryPrice missing; qty not a number
OptionalTrades ==
    {NormalizerTrade(<<"1", "8">>, <<T_0900Z, T_0900Z>>, n) :
        n \in {AllOptionalFields,
               [AllOptionalFields EXCEPT !["avgEntryPrice"] = None],
               [AllOptionalFields EXCEPT !["qty"] = Some(BadNumber)]}}
NormalizerTrades == TimedTrades \cup OptionalTrades

----------------------------------------------------------------------------
(* The state machine: one batch, handed to each consumer in main's order.  *)

Pending == [ok |-> FALSE, exc |-> "pending"]

\* the two report runs, each with the directory of its output_file
Runs == {"run_a", "run_b"}
\* the global before any run has assigned it
Unset == [set |-> FALSE]
NotStarted == [at |-> "idle"]

\* main, the LLM analysis, the fetch and the Drive before anything ran
NoServiceRan ==
    /\ args = [tempdir |-> FALSE, upload |-> FALSE]
    /\ OPENROUTER_API_KEY = ""
    /\ calls = <<>>
    /\ llm_analysis = Pending
    /\ api_calls = 0
    /\ api_response = Pending
    /\ exchange = <<>>
    /\ requests = <<>>
    /\ all_pnl_data = <<>>
    /\ next_cursor = None
    /\ closed_pnl = Pending
    /\ drive_files = {}
    /\ drive_call = [at |-> "idle"]

\* the consumers a specification does not run stay as they start
NothingElseRan ==
    /\ NoServiceRan
    /\ summary_again = Pending
    /\ processed = Pending
    /\ report_columns = Pending
    /\ report_plots_folder = Unset
    /\ runs = [r \in Runs |-> NotStarted]
    /\ savefig_calls = {}

Init ==
    /\ pnl_data = <<>>
    /\ user_input = None
    /\ STANDARD_RISK \in EnvValues
    /\ pc = "fetch"
    /\ summary = Pending
    /\ report = Pending
    /\ gdrive_report = Pending
    /\ rr_section = Pending
    /\ NothingElseRan

\* one more closed trade arrives from the exchange
AddTrade ==
    /\ pc = "fetch"
    /\ Len(pnl_data) < MaxTrades
    /\ \E r \in RawTrades : pnl_data' = Append(pnl_data, r)
    /\ UNCHANGED <<user_input, STANDARD_RISK, pc, summary, report,
                   gdrive_report, rr_section>>
    /\ UNCHANGED <<summary_again, normalizer_vars, plot_vars, service_vars>>

\* get_llm_analysis hands the batch and the user bundle to
\* prepare_trading_data_summary
PrepareTradingDataSummary ==
    /\ pc = "fetch"
    /\ \E ui \in UserInputs :
        /\ user_input' = ui
        /\ summary' = prepare_trading_data_summary(pnl_data, ui, STANDARD_RISK)
    /\ pc' = "summary"
    /\ UNCHANGED <<pnl_data, STANDARD_RISK, report, gdrive_report, rr_section>>
    /\ UNCHANGED <<summary_again, normalizer_vars, plot_vars, service_vars>>

GenerateHtmlReport ==
    /\ pc = "summary"
    /\ report' = generate_html_report(pnl_data, user_input)
    /\ pc' = "report"
    /\ UNCHANGED <<pnl_data, user_input, STANDARD_RISK, summary, gdrive_report,
                   rr_section>>
    /\ UNCHANGED <<summary_again, normalizer_vars, plot_vars, service_vars>>

GenerateHtmlWithDriveUrls ==
    /\ pc = "report"
    /\ gdrive_report' = generate_html_with_drive_urls(pnl_data, user_input)
    /\ pc' = "done"
    /\ UNCHANGED <<pnl_data, user_input, STANDARD_RISK, summary, report,
                   rr_section>>
    /\ UNCHANGED <<summary_again, normalizer_vars, plot_vars, service_vars>>

Next ==
    \/ AddTrade
    \/ PrepareTradingDataSummary
    \/ GenerateHtmlReport
    \/ GenerateHtmlWithDriveUrls

Spec == Init /\ [][Next]_vars

----------------------------------------------------------------------------
(* The R-multiple analysis of one batch under one standard risk: the same  *)
(* batch and user bundle go to _create_rr_section and to                   *)
(* prepare_trading_data_summary.                                           *)

InitRR ==
    /\ pnl_data \in BoundedSeq(StopTrades, MaxTrades)
    /\ user_input \in {UserBundle(RiskManagement(r)) : r \in StopRisks}
    /\ STANDARD_RISK = ""
    /\ pc = "rr"
    /\ summary = Pending
    /\ report = Pending
    /\ gdrive_report = Pending
    /\ rr_section = Pending
    /\ NothingElseRan

\* _create_rr_section(standard_risk, df=df), as the renderers call it
CreateRrSection ==
    /\ pc = "rr"
    /\ rr_section' = Ok(create_rr_section(report_standard_risk(user_input),
                                          report_df(pnl_data).v))
    /\ pc' = "rr_summary"
    /\ UNCHANGED <<pnl_data, user_input, STANDARD_RISK, summary, report,
                   gdrive_report>>
    /\ UNCHANGED <<summary_again, normalizer_vars, plot_vars, service_vars>>

SummarizeWithRisk ==
    /\ pc = "rr_summary"
    /\ summary' = prepare_trading_data_summary(pnl_data, user_input, STANDARD_RISK)
    /\ pc' = "done"
    /\ UNCHANGED <<pnl_data, user_input, STANDARD_RISK, report, gdrive_report,
                   rr_section>>
    /\ UNCHANGED <<summary_again, normalizer_vars, plot_vars, service_vars>>

NextRR ==
    \/ CreateRrSection
    \/ SummarizeWithRisk

SpecRR == InitRR /\ [][NextRR]_vars

----------------------------------------------------------------------------
(* The plotting half of generate_html_report, run by two callers at once.  *)
(* report_plots_folder is one global of the module: every run assigns it   *)
(* and every plot function reads it when it saves.                         *)

\* os.path.dirname(output_file) of each run
OutputDir(r) == IF r = "run_a" THEN "output/a" ELSE "output/b"

\* the plot functions, in the order generate_html_report calls them
PlotNames == <<"cumulative_pnl", "daily_pnl", "pnl_distribution",
               "duration_distribution", "hourly_heatmap">>

\* os.path.join(output_dir, "report_plots"), followed by `suffixes` copies
\* of "/{filename}.png"
PlotsFolder(dir, suffixes) == [set |-> TRUE, dir |-> dir, suffixes |-> suffixes]

\* the batch of the two runs: one closed trade
PlottedBatch == <<RawTrade("BTCUSDT", <<"1", "8">>, <<T_0900Z, T_0900Z>>)>>

\* what the plotting steps leave alone: the batch and its other consumers
batch_vars == <<pnl_data, user_input, STANDARD_RISK, pc, summary, report,
                gdrive_report, rr_section, summary_again, normalizer_vars,
                service_vars>>

InitPlots ==
    /\ pnl_data = PlottedBatch
    /\ user_input = None
    /\ STANDARD_RISK = ""
    /\ pc = "report"
    /\ summary = Pending
    /\ report = Pending
    /\ gdrive_report = Pending
    /\ rr_section = Pending
    /\ summary_again = Pending
    /\ processed = Pending
    /\ report_columns = Pending
    /\ report_plots_folder = Unset
    /\ runs = [r \in Runs |-> [at |-> "set_folder"]]
    /\ savefig_calls = {}
    /\ NoServiceRan

\* report_plots_folder = os.path.join(output_dir, "report_plots")
SetPlotsFolder(r) ==
    /\ runs[r].at = "set_folder"
    /\ report_plots_folder' = PlotsFolder(OutputDir(r), 0)
    /\ runs' = [runs EXCEPT ![r] = [at |-> "makedirs"]]
    /\ UNCHANGED <<savefig_calls, batch_vars>>

\* print(report_plots_folder); os.makedirs(report_plots_folder, exist_ok=True)
MakePlotsFolder(r) ==
    /\ runs[r].at = "makedirs"
    /\ runs' = [runs EXCEPT ![r] = [at |-> "load_folder"]]
    /\ UNCHANGED <<report_plots_folder, savefig_calls, batch_vars>>

\* report_plots_folder += "/{filename}.png": the global is loaded ...
LoadPlotsFolder(r) ==
    /\ runs[r].at = "load_folder"
    /\ runs' = [runs EXCEPT ![r] = [at |-> "store_folder",
                                    loaded |-> report_plots_folder]]
    /\ UNCHANGED <<report_plots_folder, savefig_calls, batch_vars>>

\* ... and the sum is stored back
StorePlotsFolder(r) ==
    /\ runs[r].at = "store_folder"
    /\ report_plots_folder' = PlotsFolder(runs[r].loaded.dir,
                                          runs[r].loaded.suffixes + 1)
    /\ runs' = [runs EXCEPT ![r] = [at |-> "plot", plot |-> 1]]
    /\ UNCHANGED <<savefig_calls, batch_vars>>

\* plt.savefig(report_plots_folder.format(filename=...)) of the next plot.
\* With one suffix the file is written.  With two the path lies in a
\* directory that does not exist and savefig raises; with none the path is
\* the folder itself and either may happen.
SavePlot(r) ==
    /\ runs[r].at = "plot"
    /\ savefig_calls' = savefig_calls \cup
          {[run |-> r, plot |-> PlotNames[runs[r].plot],
            dir |-> report_plots_folder.dir,
            suffixes |-> report_plots_folder.suffixes]}
    /\ \E saved \in BOOLEAN :
          /\ report_plots_folder.suffixes = 1 => saved
          /\ report_plots_folder.suffixes > 1 => ~saved
          /\ runs' = [runs EXCEPT ![r] =
                IF ~saved THEN [at |-> "failed"]
                ELSE IF runs[r].plot = Len(PlotNames) THEN [at |-> "plotted"]
                ELSE [at |-> "plot", plot |-> runs[r].plot + 1]]
    /\ UNCHANGED <<report_plots_folder, batch_vars>>

NextPlots ==
    \E r \in Runs :
        \/ SetPlotsFolder(r)
        \/ MakePlotsFolder(r)
        \/ LoadPlotsFolder(r)
        \/ StorePlotsFolder(r)
        \/ SavePlot(r)

SpecPlots == InitPlots /\ [][NextPlots]_vars

----------------------------------------------------------------------------
(* The two renderers on one fetched and summarized batch: the state main   *)
(* is in after get_llm_analysis, for every batch up to MaxTrades trades    *)
(* and for the grouping batches.                                           *)

InitSymbols ==
    /\ pnl_data \in BoundedSeq(RawTrades, MaxTrades) \cup GroupingScenarios
    /\ user_input \in {None, UserBundle(RiskManagement(Units(9)))}
    /\ STANDARD_RISK = "9"
    /\ pc = "summary"
    /\ summary = prepare_trading_data_summary(pnl_data, user_input, STANDARD_RISK)
    /\ report = Pending
    /\ gdrive_report = Pending
    /\ rr_section = Pending
    /\ NothingElseRan

NextSymbols ==
    \/ GenerateHtmlReport
    \/ GenerateHtmlWithDriveUrls

SpecSymbols == InitSymbols /\ [][NextSymbols]_vars

----------------------------------------------------------------------------
(* prepare_trading_data_summary called twice by one caller, with the same  *)
(* list and the same user bundle.                                          *)

InitTwice ==
    /\ pnl_data \in BoundedSeq(RawTrades, MaxTrades)
    /\ user_input \in UserInputs
    /\ STANDARD_RISK = "9"
    /\ pc = "first"
    /\ summary = Pending
    /\ report = Pending
    /\ gdrive_report = Pending
    /\ rr_section = Pending
    /\ NothingElseRan

\* the first call: its result, and the list as the call leaves it
SummarizeOnce ==
    /\ pc = "first"
    /\ summary' = prepare_trading_data_summary(pnl_data, user_input, STANDARD_RISK)
    /\ pnl_data' = records_after_frame(pnl_data)
    /\ pc' = "second"
    /\ UNCHANGED <<user_input, STANDARD_RISK, report, gdrive_report, rr_section>>
    /\ UNCHANGED <<summary_again, normalizer_vars, plot_vars, service_vars>>

\* the second call, on the list the first call left
SummarizeAgain ==
    /\ pc = "second"
    /\ summary_again' =
          prepare_trading_data_summary(pnl_data, user_input, STANDARD_RISK)
    /\ pnl_data' = records_after_frame(pnl_data)
    /\ pc' = "twice"
    /\ UNCHANGED <<user_input, STANDARD_RISK, summary, report, gdrive_report,
                   rr_section>>
    /\ UNCHANGED <<normalizer_vars, plot_vars, service_vars>>

NextTwice ==
    \/ SummarizeOnce
    \/ SummarizeAgain

SpecTwice == InitTwice /\ [][NextTwice]_vars

----------------------------------------------------------------------------
(* One fetched batch of trades of three weekdays, summarized and rendered. *)

InitWeek ==
    /\ pnl_data \in BoundedSeq(WeekTrades, MaxTrades)
    /\ user_input = None
    /\ STANDARD_RISK \in EnvValues
    /\ pc = "fetch"
    /\ summary = Pending
    /\ report = Pending
    /\ gdrive_report = Pending
    /\ rr_section = Pending
    /\ NothingElseRan

NextWeek ==
    \/ PrepareTradingDataSummary
    \/ GenerateHtmlReport
    \/ GenerateHtmlWithDriveUrls

SpecWeek == InitWeek /\ [][NextWeek]_vars

----------------------------------------------------------------------------
(* One batch through the normalizer, the summary and the report's          *)
(* optional columns.                                                       *)

InitNormalize ==
    /\ pnl_data \in BoundedSeq(NormalizerTrades, MaxTrades)
    /\ user_input = UserBundle(RiskManagement(Units(9)))
    /\ STANDARD_RISK = ""
    /\ pc = "normalize"
    /\ summary = Pending
    /\ report = Pending
    /\ gdrive_report = Pending
    /\ rr_section = Pending
    /\ NothingElseRan

\* import src.models; convert_raw_to_processed(raw_data)
ConvertRawToProcessed ==
    /\ pc = "normalize"
    /\ processed' = convert_raw_to_processed(pnl_data)
    /\ pc' = "summarize"
    /\ UNCHANGED <<pnl_data, user_input, STANDARD_RISK, summary, report,
                   gdrive_report, rr_section, summary_again, report_columns,
                   plot_vars, service_vars>>

SummarizeBatch ==
    /\ pc = "summarize"
    /\ summary' = prepare_trading_data_summary(pnl_data, user_input, STANDARD_RISK)
    /\ pc' = "columns"
    /\ UNCHANGED <<pnl_data, user_input, STANDARD_RISK, report, gdrive_report,
                   rr_section, summary_again, normalizer_vars, plot_vars, service_vars>>

\* the optional columns of generate_html_report's frame; an empty batch
\* returns before the frame is built
ConvertReportColumns ==
    /\ pc = "columns"
    /\ report_columns' = IF pnl_data = <<>> THEN Raise("NoData")
                         ELSE Ok(report_numeric_columns(pnl_data))
    /\ pc' = "done"
    /\ UNCHANGED <<pnl_data, user_input, STANDARD_RISK, summary, report,
                   gdrive_report, rr_section, summary_again, processed,
                   plot_vars, service_vars>>

NextNormalize ==
    \/ ConvertRawToProcessed
    \/ SummarizeBatch
    \/ ConvertReportColumns

SpecNormalize == InitNormalize /\ [][NextNormalize]_vars

----------------------------------------------------------------------------
(* Properties.  The expected values are computed from the raw records,     *)
(* not from the frame the code builds.                                     *)

\* closedPnl of the i-th raw record, in cents
RawPnl(i) == astype_float(pnl_data[i].closedPnl).v
RawIndices == 1..Len(pnl_data)
RawWins == {i \in RawIndices : RawPnl(i) > 0}
RawLosses == {i \in RawIndices : RawPnl(i) < 0}
RawZeros == {i \in RawIndices : RawPnl(i) = 0}

RECURSIVE RawSum(_)
\* the sum of closedPnl over a set of record indices
RawSum(I) ==
    IF I = {} THEN 0
    ELSE LET i == CHOOSE j \in I : TRUE IN RawPnl(i) + RawSum(I \ {i})

Overall == summary.v.overall_performance

\* C1: in every summary that prepare_trading_data_summary builds,
\* winning_trades + losing_trades <= total_trades, with equality exactly
\* when no record of the batch has closedPnl = 0.
C1_CountInvariant ==
    summary.ok =>
        /\ Overall.total_trades = Len(pnl_data)
        /\ Overall.winning_trades + Overall.losing_trades <= Overall.total_trades
        /\ (Overall.winning_trades + Overall.losing_trades = Overall.total_trades)
              <=> (RawZeros = {})

\* a summary of a batch with a zero-P&L record beside a winning one
C1_Witness ==
    /\ summary.ok
    /\ RawZeros # {}
    /\ RawWins # {}
    /\ Overall.winning_trades + Overall.losing_trades < Overall.total_trades

\* C2 as stated: for every batch, once prepare_trading_data_summary has run
\* with a numeric standard risk, win_rate is winning_trades / total_trades
\* for a batch with trades and 0 for a batch without, so it lies in [0, 1].
C2_WinRateForEveryInput ==
    (pc = "summary" /\ standard_risk_of(user_input, STANDARD_RISK).t = "num") =>
        /\ summary.ok
        /\ Overall.win_rate =
              IF Len(pnl_data) > 0
              THEN Frac(Cardinality(RawWins), Len(pnl_data)) ELSE Num(0)
        /\ FLeq(Num(0), Overall.win_rate)
        /\ FLeq(Overall.win_rate, Num(1))

\* C3 as stated: the empty batch gives a summary, without an exception,
\* with total_trades = 0, win_rate = 0, profit_factor = 0 and best_hour,
\* worst_hour, best_day and worst_day null.
C3_EmptyInputSummary ==
    (pc = "summary" /\ pnl_data = <<>>) =>
        /\ summary.ok
        /\ Overall.total_trades = 0
        /\ Overall.win_rate = Num(0)
        /\ Overall.profit_factor = Num(0)
        /\ summary.v.time_patterns.best_hour = None
        /\ summary.v.time_patterns.worst_hour = None
        /\ summary.v.time_patterns.best_day = None
        /\ summary.v.time_patterns.worst_day = None

\* C4: in every summary, profit_factor is |sum of the positive closedPnl| /
\* |sum of the negative closedPnl|, finite and >= 0, when the batch has a
\* losing trade, and +infinity when it has trades and none of them loses.
C4_ProfitFactor ==
    summary.ok =>
        /\ RawLosses # {} =>
              /\ IsFinite(Overall.profit_factor)
              /\ FLeq(Num(0), Overall.profit_factor)
              /\ Overall.profit_factor =
                    Frac(Abs(RawSum(RawWins)), Abs(RawSum(RawLosses)))
        /\ (RawLosses = {} /\ Len(pnl_data) > 0) => Overall.profit_factor = INF

\* a summary of a batch with a win and a loss: a positive finite factor
C4_Witness ==
    /\ summary.ok
    /\ RawLosses # {}
    /\ RawWins # {}
    /\ IsFinite(Overall.profit_factor)
    /\ FLess(Num(0), Overall.profit_factor)

\* C5 as stated: when the positive and the negative closedPnl both sum to
\* zero, the summary's profit_factor is 0.
C5_DegenerateProfitFactor ==
    (summary.ok /\ RawSum(RawWins) = 0 /\ RawSum(RawLosses) = 0) =>
        Overall.profit_factor = Num(0)

RiskReward == summary.v.risk_reward
\* the standard risk the renderers read from the user bundle
BundleRisk == report_standard_risk(user_input)

\* the losing records whose |closedPnl| lies in
\* [0.95 * risk, 1.05 * risk], both ends included
RawFullStops(risk) ==
    {i \in RawLosses : /\ 95 * risk <= 100 * Abs(RawPnl(i))
                       /\ 100 * Abs(RawPnl(i)) <= 105 * risk}

\* C6: _analyze_stop_loss_data counts a losing trade as a full stop exactly
\* when 0.95 * standard_risk <= |closedPnl| <= 1.05 * standard_risk and as a
\* partial stop otherwise; trades that do not lose are in neither count.
\* With a standard risk of 10, -9.5 and -10.5 are full stops, -9.49 and
\* -10.51 partial stops.
C6_StopClassification ==
    rr_section.ok =>
        /\ rr_section.v.full_stops = Cardinality(RawFullStops(BundleRisk))
        /\ rr_section.v.partial_stops =
              Cardinality(RawLosses \ RawFullStops(BundleRisk))
        /\ rr_section.v.full_stops + rr_section.v.partial_stops =
              Cardinality(RawLosses)
        /\ (BundleRisk = Units(10) /\ Len(pnl_data) = 1) =>
              /\ RawPnl(1) \in {-950, -1050} =>
                    rr_section.v.full_stops = 1 /\ rr_section.v.partial_stops = 0
              /\ RawPnl(1) \in {-949, -1051} =>
                    rr_section.v.full_stops = 0 /\ rr_section.v.partial_stops = 1

\* a risk of 10 with a loss on the band's lower end and one just above it
C6_Witness ==
    /\ rr_section.ok
    /\ BundleRisk = Units(10)
    /\ Len(pnl_data) = 2
    /\ RawPnl(1) = -950
    /\ RawPnl(2) = -1051
    /\ rr_section.v.full_stops = 1
    /\ rr_section.v.partial_stops = 1

\* the standard risk C7 states: the user's override when the bundle has
\* one, else the configured STANDARD_RISK, else 9
UserHasOverride ==
    /\ Truthy(user_input)
    /\ "RISK_MANAGEMENT" \in DOMAIN user_input.v
    /\ "standard_risk_per_trade" \in DOMAIN user_input.v.RISK_MANAGEMENT
StatedStandardRisk ==
    IF UserHasOverride THEN user_input.v.RISK_MANAGEMENT.standard_risk_per_trade
    ELSE IF STANDARD_RISK = "9" THEN Units(9)
    ELSE DefaultStandardRisk

\* x / risk for a positive risk, else 0
StatedR(x, risk) == IF risk > 0 THEN FDiv(x, Num(risk)) ELSE Num(0)

\* the mean of closedPnl over a set of records, 0 over none
MeanOf(I) == IF I = {} THEN Num(0) ELSE Frac(RawSum(I), Cardinality(I))
\* the largest closedPnl of a set of records, 0 over none
MaxOf(I) ==
    IF I = {} THEN Num(0)
    ELSE Num(RawPnl(CHOOSE i \in I : \A j \in I : RawPnl(j) <= RawPnl(i)))

\* C7 as stated: for every batch with trades, the summary is built and its
\* R-multiples are taken over the user's override, else over the
\* configured STANDARD_RISK, else over 9.
C7_StandardRiskUsed ==
    (pc = "summary" /\ pnl_data # <<>>) =>
        /\ summary.ok
        /\ RiskReward.avg_win_r = StatedR(MeanOf(RawWins), StatedStandardRisk)
        /\ RiskReward.avg_loss_r =
              StatedR(FAbs(MeanOf(RawLosses)), StatedStandardRisk)

LocalCreated(i) == tz_convert_bangkok(to_datetime_ms(pnl_data[i].createdTime).v)
EarliestRecord == CHOOSE i \in RawIndices :
    \A j \in RawIndices : ~TLess(LocalCreated(j), LocalCreated(i))
LatestRecord == CHOOSE i \in RawIndices :
    \A j \in RawIndices : ~TLess(LocalCreated(i), LocalCreated(j))

\* C9 as stated: the summary's period and its best and worst hour are
\* taken from createdTime on the UTC+7 wall clock; a single trade created
\* at 2024-01-01T23:30:00Z gives the date 2024-01-02 and the hour 6.
C9_SummaryCalendarIsUtcPlus7 ==
    summary.ok =>
        /\ summary.v.period.start = strftime_ymd(LocalCreated(EarliestRecord))
        /\ summary.v.period.end = strftime_ymd(LocalCreated(LatestRecord))
        /\ summary.v.time_patterns.best_hour.v \in
              {dt_hour(LocalCreated(i)) : i \in RawIndices}
        /\ summary.v.time_patterns.worst_hour.v \in
              {dt_hour(LocalCreated(i)) : i \in RawIndices}
        /\ (Len(pnl_data) = 1 /\ pnl_data[1].createdTime = T_2330Z) =>
              /\ summary.v.period.start = <<2024, 1, 2>>
              /\ summary.v.time_patterns.best_hour = Some(6)

\* the numbers of one written report against the summary of the same batch
ShowsSummaryNumbers(shown) ==
    /\ shown.params.total_pnl = Overall.total_pnl
    /\ shown.params.win_rate = FMul(Num(100), Overall.win_rate)
    /\ shown.params.winning_trades = Overall.winning_trades
    /\ shown.params.losing_trades = Overall.losing_trades
    /\ shown.params.total_trades = Overall.total_trades
    /\ shown.params.avg_win = RiskReward.avg_win
    /\ shown.params.avg_loss_abs = FAbs(RiskReward.avg_loss)
    /\ shown.params.period_start = summary.v.period.start
    /\ shown.params.period_end = summary.v.period.end
    /\ shown.best_hour = summary.v.time_patterns.best_hour

\* C10 as stated: every number a written report shows (total P&L, win rate
\* in percent, the trade counts, average win and loss, period start and
\* end, most profitable hour) is the value the summary of the same batch
\* holds.
C10_ReportShowsSummaryNumbers ==
    /\ (summary.ok /\ report.ok /\ report.v.written) =>
          ShowsSummaryNumbers(report.v)
    /\ (summary.ok /\ gdrive_report.ok /\ gdrive_report.v.written) =>
          ShowsSummaryNumbers(gdrive_report.v)

\* C11 as stated: when two generate_html_report runs with different output
\* directories interleave, every plot of a run is saved under that run's
\* own report_plots folder, and the folder a run has loaded is the one it
\* assigned itself.
C11_PlotsUnderOwnFolder ==
    /\ \A c \in savefig_calls :
          c.dir = OutputDir(c.run) /\ c.suffixes = 1
    /\ \A r \in Runs :
          runs[r].at = "store_folder" => runs[r].loaded.dir = OutputDir(r)

\* a string that reads as a number / as a millisecond timestamp
IsNumberString(cs) == cs # <<>> /\ astype_float(cs).ok
IsTimestampString(cs) == cs # <<>> /\ AllDigits(cs)
\* the required fields of the i-th raw record all parse
WellFormed(i) ==
    /\ IsNumberString(pnl_data[i].closedPnl)
    /\ IsTimestampString(pnl_data[i].createdTime)
    /\ IsTimestampString(pnl_data[i].updatedTime)
\* the i-th raw record was updated before it was created
NegativeDuration(i) ==
    /\ IsTimestampString(pnl_data[i].createdTime)
    /\ IsTimestampString(pnl_data[i].updatedTime)
    /\ TLess(to_datetime_ms(pnl_data[i].updatedTime).v,
             to_datetime_ms(pnl_data[i].createdTime).v)

\* C12 as stated: for every non-empty batch of well-formed records,
\* convert_raw_to_processed returns a list of the same length whose i-th
\* element is the normalized i-th record.
C12_NormalizedSameLength ==
    (pc # "normalize" /\ pnl_data # <<>>
        /\ \A i \in RawIndices : WellFormed(i) /\ ~NegativeDuration(i)) =>
        /\ processed.ok
        /\ Len(processed.v) = Len(pnl_data)
        /\ \A i \in RawIndices :
              /\ processed.v[i].symbol = pnl_data[i].symbol
              /\ processed.v[i].closedPnl = RawPnl(i)
              /\ processed.v[i].createdTime = to_datetime_ms(pnl_data[i].createdTime).v

\* C13 as stated: when a record's closedPnl, createdTime or updatedTime is
\* not a number, normalization fails with an error and no summary is
\* produced that counts the record.
C13_MalformedRecordRejected ==
    (pc \in {"columns", "done"} /\ \E i \in RawIndices : ~WellFormed(i)) =>
        /\ ~processed.ok
        /\ ~summary.ok

\* C14 as stated: a record with updatedTime = createdTime is accepted with
\* duration 0; a record with updatedTime < createdTime is rejected, so no
\* summary and no normalized list is built from a batch holding one, and no
\* duration average is negative.
C14_NegativeDurationRejected ==
    /\ summary.ok =>
          /\ \A i \in RawIndices : ~NegativeDuration(i)
          /\ ~FLess(summary.v.time_patterns.win_duration_hours, Num(0))
          /\ ~FLess(summary.v.time_patterns.loss_duration_hours, Num(0))
    /\ processed.ok => \A i \in RawIndices : ~NegativeDuration(i)
    /\ (pc \in {"columns", "done"} /\ Len(pnl_data) = 1 /\ WellFormed(1)
          /\ pnl_data[1].createdTime = pnl_data[1].updatedTime) =>
          /\ summary.ok
          /\ summary.v.time_patterns.win_duration_hours = Num(0)

\* the cell C15 states for field k of record i: the float of a number
\* string, and an absent value (no column, or NaN) otherwise
StatedCellOk(cell, source) ==
    IF ~source.none /\ IsNumberString(source.v)
    THEN cell = Some(NumVal(astype_float(source.v).v))
    ELSE cell \in {None, Some(NAN)}

\* C15 as stated: each optional numeric field on its own is a float when
\* its source value is a number string and absent (never 0) when the
\* source value is missing or not a number, whatever the other optional
\* fields hold.
C15_OptionalFieldsIndependent ==
    /\ report_columns.ok =>
          \A k \in 1..Len(NumericFields) : \A i \in RawIndices :
              StatedCellOk(report_columns.v[k][i],
                           pnl_data[i].numeric[NumericFields[k]])
    /\ processed.ok =>
          \A k \in 1..Len(NumericFields) : \A i \in RawIndices :
              StatedCellOk(processed.v[i].numeric[k],
                           pnl_data[i].numeric[NumericFields[k]])
    /\ (pc = "done" /\ pnl_data # <<>>) => report_columns.ok

\* the numeric fields of a summary other than profit_factor
NumericSummaryFields(sm) ==
    {sm.overall_performance.win_rate,
     sm.risk_reward.avg_win, sm.risk_reward.avg_loss,
     sm.risk_reward.avg_win_r, sm.risk_reward.avg_loss_r,
     sm.risk_reward.reward_risk_ratio,
     sm.time_patterns.win_duration_hours,
     sm.time_patterns.loss_duration_hours}
    \cup {sm.symbols[j].win_rate : j \in 1..Len(sm.symbols)}
    \cup {sm.symbols[j].avg_profit : j \in 1..Len(sm.symbols)}
    \cup {sm.time_patterns.hourly_performance[j].mean :
              j \in 1..Len(sm.time_patterns.hourly_performance)}
    \cup {sm.time_patterns.daily_performance[j].mean :
              j \in 1..Len(sm.time_patterns.daily_performance)}

\* C16 as stated: in every summary returned, no numeric field other than
\* profit_factor is NaN or infinite; reward_risk_ratio is finite when the
\* batch has no losing trade.
C16_OnlyProfitFactorInfinite ==
    summary.ok =>
        /\ \A x \in NumericSummaryFields(summary.v) : IsFinite(x)
        /\ (RawLosses = {} => IsFinite(summary.v.risk_reward.reward_risk_ratio))

\* the records of a symbol, and the first of them
RawOfSymbol(s) == {i \in RawIndices : pnl_data[i].symbol = s}
FirstOfSymbol(s) == CHOOSE i \in RawOfSymbol(s) : \A j \in RawOfSymbol(s) : i <= j
RawSymbols == {pnl_data[i].symbol : i \in RawIndices}

\* the symbol rows of a written report are one row per symbol of the batch,
\* by total_pnl descending, rows of equal total_pnl in the order their
\* symbols first appear in the batch
RowsInStatedOrder(rows) ==
    /\ Len(rows) = Cardinality(RawSymbols)
    /\ {rows[j].symbol : j \in 1..Len(rows)} = RawSymbols
    /\ \A j \in 1..Len(rows) :
          /\ rows[j].total_pnl = RawSum(RawOfSymbol(rows[j].symbol))
          /\ rows[j].total_trades = Cardinality(RawOfSymbol(rows[j].symbol))
          /\ rows[j].win_rate =
                Frac(100 * Cardinality(RawOfSymbol(rows[j].symbol) \cap RawWins),
                     Cardinality(RawOfSymbol(rows[j].symbol)))
    /\ \A j, k \in 1..Len(rows) : j < k =>
          \/ rows[j].total_pnl > rows[k].total_pnl
          \/ /\ rows[j].total_pnl = rows[k].total_pnl
             /\ FirstOfSymbol(rows[j].symbol) < FirstOfSymbol(rows[k].symbol)

\* C17: the symbol rows of every written report are ordered by total_pnl
\* descending, symbols of equal total_pnl in order of first appearance in
\* the batch; for the grouping batch the rows are BTCUSDT (total 8, win
\* rate 2/3, as a percentage) and then ETHUSDT (total -4).
C17_SymbolRowsOrdered ==
    /\ (report.ok /\ report.v.written) =>
          RowsInStatedOrder(report.v.symbol_stats_rows)
    /\ (gdrive_report.ok /\ gdrive_report.v.written) =>
          RowsInStatedOrder(gdrive_report.v.symbol_stats_rows)
    /\ (pc = "done" /\ pnl_data \in GroupingScenarios) =>
          /\ gdrive_report.ok /\ gdrive_report.v.written
          /\ Len(gdrive_report.v.symbol_stats_rows) = 2
          /\ gdrive_report.v.symbol_stats_rows[1].symbol = "BTCUSDT"
          /\ gdrive_report.v.symbol_stats_rows[1].total_pnl = Units(8)
          /\ gdrive_report.v.symbol_stats_rows[1].win_rate = Frac(200, 3)
          /\ gdrive_report.v.symbol_stats_rows[2].symbol = "ETHUSDT"
          /\ gdrive_report.v.symbol_stats_rows[2].total_pnl = Units(0) - Units(4)

\* the grouping batch with the ETHUSDT trades first has been rendered, and
\* its rows list BTCUSDT first
C17_Witness ==
    /\ pc = "done"
    /\ pnl_data = EthScenarioTrades \o BtcScenarioTrades
    /\ gdrive_report.ok /\ gdrive_report.v.written
    /\ gdrive_report.v.symbol_stats_rows[1].symbol = "BTCUSDT"
    /\ gdrive_report.v.symbol_stats_rows[1].total_pnl = Units(8)
    /\ gdrive_report.v.symbol_stats_rows[2].symbol = "ETHUSDT"

SymbolEntries(s) ==
    {j \in 1..Len(summary.v.symbols) : summary.v.symbols[j].symbol = s}

RECURSIVE TradeCountSum(_)
\* the sum of trade_count over the first n entries of summary.symbols
TradeCountSum(n) ==
    IF n = 0 THEN 0 ELSE summary.v.symbols[n].trade_count + TradeCountSum(n - 1)

\* C19: in every summary, each symbol of the batch has one entry, whose
\* trade_count is the number of its records, total_pnl their closedPnl
\* sum, win_rate the share of them with closedPnl > 0 (within [0, 1]) and
\* avg_profit total_pnl / trade_count over all of them; no other symbol has
\* an entry, and the trade_counts sum to total_trades.
C19_SymbolPerformance ==
    summary.ok =>
        /\ \A s \in RawSymbols : Cardinality(SymbolEntries(s)) = 1
        /\ \A j \in 1..Len(summary.v.symbols) :
              LET e == summary.v.symbols[j]
                  of_symbol == RawOfSymbol(e.symbol)
              IN  /\ e.symbol \in RawSymbols
                  /\ e.trade_count = Cardinality(of_symbol)
                  /\ e.total_pnl = RawSum(of_symbol)
                  /\ e.win_rate = Frac(Cardinality(of_symbol \cap RawWins),
                                       Cardinality(of_symbol))
                  /\ FLeq(Num(0), e.win_rate) /\ FLeq(e.win_rate, Num(1))
                  /\ e.avg_profit = Frac(RawSum(of_symbol), Cardinality(of_symbol))
        /\ TradeCountSum(Len(summary.v.symbols)) = Overall.total_trades

\* a summary of a symbol with one winning and one losing trade: win_rate 1/2
\* and an avg_profit below the winning trade's closedPnl
C19_Witness ==
    /\ summary.ok
    /\ Len(pnl_data) = 2
    /\ pnl_data[1].symbol = pnl_data[2].symbol
    /\ RawPnl(1) > 0 /\ RawPnl(2) < 0
    /\ Len(summary.v.symbols) = 1
    /\ summary.v.symbols[1].trade_count = 2
    /\ summary.v.symbols[1].win_rate = Frac(1, 2)
    /\ summary.v.symbols[1].avg_profit = Frac(RawPnl(1) + RawPnl(2), 2)

\* the hour of record i on the summary's clock, and the records of an hour
RawHour(i) == dt_hour(to_datetime_ms(pnl_data[i].createdTime).v)
RawHours == {RawHour(i) : i \in RawIndices}
RawOfHour(h) == {i \in RawIndices : RawHour(i) = h}

\* h is the smallest of the hours with trades whose mean closedPnl is the
\* largest (the smallest)
IsBestHour(h) ==
    /\ h \in RawHours
    /\ \A g \in RawHours : FLeq(MeanOf(RawOfHour(g)), MeanOf(RawOfHour(h)))
    /\ \A g \in RawHours : MeanOf(RawOfHour(g)) = MeanOf(RawOfHour(h)) => h <= g
IsWorstHour(h) ==
    /\ h \in RawHours
    /\ \A g \in RawHours : FLeq(MeanOf(RawOfHour(h)), MeanOf(RawOfHour(g)))
    /\ \A g \in RawHours : MeanOf(RawOfHour(g)) = MeanOf(RawOfHour(h)) => h <= g

\* C20: for every batch with trades the summary is built (given a numeric
\* standard risk), best_hour is the hour of largest mean closedPnl and
\* worst_hour the hour of smallest mean closedPnl among the hours that have
\* a trade, and of several such hours the smallest is taken.
C20_BestAndWorstHour ==
    /\ (pc = "summary" /\ pnl_data # <<>>
          /\ standard_risk_of(user_input, STANDARD_RISK).t = "num") => summary.ok
    /\ (summary.ok /\ pnl_data # <<>>) =>
          /\ ~summary.v.time_patterns.best_hour.none
          /\ IsBestHour(summary.v.time_patterns.best_hour.v)
          /\ ~summary.v.time_patterns.worst_hour.none
          /\ IsWorstHour(summary.v.time_patterns.worst_hour.v)

\* a summary of two trades of equal closedPnl in two hours, the later hour
\* first in the batch: best_hour and worst_hour are the smaller hour
C20_Witness ==
    /\ summary.ok
    /\ Len(pnl_data) = 2
    /\ RawPnl(1) = RawPnl(2)
    /\ RawHour(1) > RawHour(2)
    /\ summary.v.time_patterns.best_hour = Some(RawHour(2))
    /\ summary.v.time_patterns.worst_hour = Some(RawHour(2))

\* the weekday of record i on the summary's clock, the records of a weekday,
\* and the place of a weekday in the week that starts on Monday
RawDay(i) == dt_day_name(to_datetime_ms(pnl_data[i].createdTime).v)
RawDays == {RawDay(i) : i \in RawIndices}
RawOfDay(d) == {i \in RawIndices : RawDay(i) = d}
CalendarIndex(d) == CHOOSE k \in 1..Len(DayNames) : DayNames[k] = d

\* d is, of the weekdays with trades whose mean closedPnl is the largest
\* (the smallest), the first in the week
IsBestDay(d) ==
    /\ d \in RawDays
    /\ \A g \in RawDays : FLeq(MeanOf(RawOfDay(g)), MeanOf(RawOfDay(d)))
    /\ \A g \in RawDays : MeanOf(RawOfDay(g)) = MeanOf(RawOfDay(d)) =>
          CalendarIndex(d) <= CalendarIndex(g)
IsWorstDay(d) ==
    /\ d \in RawDays
    /\ \A g \in RawDays : FLeq(MeanOf(RawOfDay(d)), MeanOf(RawOfDay(g)))
    /\ \A g \in RawDays : MeanOf(RawOfDay(g)) = MeanOf(RawOfDay(d)) =>
          CalendarIndex(d) <= CalendarIndex(g)

\* C21 as stated: in every summary of a batch with trades, best_day and
\* worst_day are the weekday of largest / smallest mean closedPnl among the
\* weekdays that have a trade, and of several such weekdays the first in
\* calendar order starting Monday.
C21_BestAndWorstDay ==
    (summary.ok /\ pnl_data # <<>>) =>
        /\ ~summary.v.time_patterns.best_day.none
        /\ IsBestDay(summary.v.time_patterns.best_day.v)
        /\ ~summary.v.time_patterns.worst_day.none
        /\ IsWorstDay(summary.v.time_patterns.worst_day.v)

\* updatedTime - createdTime of record i, in milliseconds
RawDurationMs(i) ==
    DiffMs(to_datetime_ms(pnl_data[i].updatedTime).v,
           to_datetime_ms(pnl_data[i].createdTime).v)

RECURSIVE RawDurationSum(_)
RawDurationSum(I) ==
    IF I = {} THEN 0
    ELSE LET i == CHOOSE j \in I : TRUE IN RawDurationMs(i) + RawDurationSum(I \ {i})

\* the mean duration, in hours, of a set of records; 0 over none
MeanDurationOf(I) ==
    IF I = {} THEN Num(0)
    ELSE Frac(RawDurationSum(I), 1000 * SecondsPerHour * Cardinality(I))

\* C22: in every summary, win_duration_hours is the mean duration in hours
\* of the records with closedPnl > 0 and loss_duration_hours that of the
\* records with closedPnl < 0, each 0 when there is no such record; records
\* with closedPnl = 0 enter neither.
C22_WinAndLossDurations ==
    summary.ok =>
        /\ summary.v.time_patterns.win_duration_hours = MeanDurationOf(RawWins)
        /\ summary.v.time_patterns.loss_duration_hours = MeanDurationOf(RawLosses)

\* a summary of a winning trade held two hours and a zero-P&L trade closed
\* at once: the winners' mean is two hours, the losers' is 0
C22_Witness ==
    /\ summary.ok
    /\ Len(pnl_data) = 2
    /\ RawPnl(1) > 0 /\ RawDurationMs(1) = 2 * 1000 * SecondsPerHour
    /\ RawPnl(2) = 0 /\ RawDurationMs(2) = 0
    /\ summary.v.time_patterns.win_duration_hours = Num(2)
    /\ summary.v.time_patterns.loss_duration_hours = Num(0)

\* createdTime of record i on the summary's clock, and the earliest and
\* latest of the batch
RawCreated(i) == to_datetime_ms(pnl_data[i].createdTime).v
EarliestCreated ==
    RawCreated(CHOOSE i \in RawIndices :
                  \A j \in RawIndices : ~TLess(RawCreated(j), RawCreated(i)))
LatestCreated ==
    RawCreated(CHOOSE i \in RawIndices :
                  \A j \in RawIndices : ~TLess(RawCreated(i), RawCreated(j)))

\* C23 as stated: in every summary of a batch with trades, period.start and
\* period.end are the calendar dates of the earliest and latest createdTime
\* and period.days is the number of calendar days from period.start to
\* period.end, both included.
C23_PeriodDaysInclusive ==
    (summary.ok /\ pnl_data # <<>>) =>
        /\ summary.v.period.start = strftime_ymd(EarliestCreated)
        /\ summary.v.period.end = strftime_ymd(LatestCreated)
        /\ summary.v.period.days =
              dt_date(LatestCreated) - dt_date(EarliestCreated) + 1

\* C24: with a standard risk of 0, _analyze_stop_loss_data returns for
\* every batch full_stops = 0 and partial_stops = the number of losing
\* trades, and raises nothing.
C24_ZeroRiskNoFullStops ==
    (pc \in {"rr_summary", "done"} /\ BundleRisk = 0) =>
        /\ rr_section.ok
        /\ rr_section.v.full_stops = 0
        /\ rr_section.v.partial_stops = Cardinality(RawLosses)

\* the stops of a batch with a losing trade and a zero-P&L trade have been
\* counted under a standard risk of 0
C24_Witness ==
    /\ pc \in {"rr_summary", "done"}
    /\ BundleRisk = 0
    /\ RawLosses # {}
    /\ RawZeros # {}
    /\ rr_section.ok
    /\ rr_section.v.full_stops = 0
    /\ rr_section.v.partial_stops = Cardinality(RawLosses)

\* C25 as stated: for every batch with trades, with or without user data,
\* generate_html_report returns without raising and has written the report.
C25_ReportAlwaysWritten ==
    (pc \in {"report", "done"} /\ pnl_data # <<>>) =>
        /\ report.ok
        /\ report.v.written

----------------------------------------------------------------------------
(* TradingAnalyzer.analyze_trading_data on the summary of a batch, for     *)
(* every answer of the API with a content of up to MaxPieces pieces.       *)

MaxPieces == 3

Contents == BoundedSeq(Pieces, MaxPieces)
Bodies == {ResponseWithoutChoices, ResponseWith(None)}
              \cup {ResponseWith(Some(c)) : c \in Contents}
ApiAnswers ==
    {[kind |-> "raises"]}
        \cup {[kind |-> "response", status |-> 500, body |-> ResponseWithoutChoices]}
        \cup {[kind |-> "response", status |-> 200, body |-> b] : b \in Bodies}

\* the variables of the analytics, which the services leave alone
analytics_vars == <<pnl_data, user_input, STANDARD_RISK, summary, report,
                    gdrive_report, rr_section, summary_again, normalizer_vars,
                    plot_vars>>

InitAnalyze ==
    /\ pnl_data \in BoundedSeq(StopTrades, 1) \ {<<>>}
    /\ user_input = UserBundle(RiskManagement(Units(9)))
    /\ STANDARD_RISK = ""
    /\ pc = "analyze"
    /\ summary = prepare_trading_data_summary(pnl_data, user_input, STANDARD_RISK)
    /\ report = Pending
    /\ gdrive_report = Pending
    /\ rr_section = Pending
    /\ summary_again = Pending
    /\ processed = Pending
    /\ report_columns = Pending
    /\ report_plots_folder = Unset
    /\ runs = [r \in Runs |-> NotStarted]
    /\ savefig_calls = {}
    /\ args = [tempdir |-> FALSE, upload |-> FALSE]
    /\ OPENROUTER_API_KEY \in {"", "sk-or-v1"}
    /\ calls = <<>>
    /\ llm_analysis = Pending
    /\ api_calls = 0
    /\ api_response = Pending
    /\ exchange = <<>>
    /\ requests = <<>>
    /\ all_pnl_data = <<>>
    /\ next_cursor = None
    /\ closed_pnl = Pending
    /\ drive_files = {}
    /\ drive_call = [at |-> "idle"]

\* analyze_trading_data up to the request: without a key the error dict is
\* returned, with a key the prompt is posted (the summary is a dict of
\* str, int, float, None, dict: json.dumps writes it)
AnalyzeTradingData ==
    /\ pc = "analyze"
    /\ IF OPENROUTER_API_KEY = ""
       THEN /\ llm_analysis' = Ok(NoApiKeyError)
            /\ pc' = "analyzed"
            /\ UNCHANGED api_calls
       ELSE /\ api_calls' = api_calls + 1
            /\ pc' = "awaiting"
            /\ UNCHANGED llm_analysis
    /\ UNCHANGED <<api_response, main_vars, fetch_vars, drive_vars, analytics_vars>>

\* the API answers, and analyze_trading_data returns
OpenRouterAnswers ==
    /\ pc = "awaiting"
    /\ \E answer \in ApiAnswers :
        /\ api_response' = answer
        /\ llm_analysis' = Ok(analysis_of(answer))
    /\ pc' = "analyzed"
    /\ UNCHANGED <<api_calls, main_vars, fetch_vars, drive_vars, analytics_vars>>

NextAnalyze ==
    \/ AnalyzeTradingData
    \/ OpenRouterAnswers

SpecAnalyze == InitAnalyze /\ [][NextAnalyze]_vars

----------------------------------------------------------------------------
(* C28 *)

\* the dict has an "error" key
HasErrorKey(analysis) == ("none" \notin DOMAIN analysis) /\ ("error" \in DOMAIN analysis)

\* the content the answered body carries, if any
AnsweredContent == api_response.body.choices[1].message.content.v
AnswerFailed == api_response.kind = "raises" \/ api_response.status # 200
AnswerLacksContent ==
    \/ api_response.body.choices = <<>>
    \/ api_response.body.choices[1].message.content.none

\* The text the claim has parsed: what stands between the first "```json"
\* and the fence after it; without a "```json", between the first "```"
\* and the next; without any fence, the content.
StatedJsonText(content) ==
    LET opening == IF \E i \in DOMAIN content : content[i] = FenceJson
                   THEN {i \in DOMAIN content : content[i] = FenceJson}
                   ELSE {i \in DOMAIN content : content[i] = Fence}
    IN  IF opening = {} THEN content
        ELSE LET o == CHOOSE i \in opening : \A j \in opening : i <= j
                 c == IF \E j \in (o + 1)..Len(content) : content[j] \in {Fence, FenceJson}
                      THEN CHOOSE j \in (o + 1)..Len(content) :
                              /\ content[j] \in {Fence, FenceJson}
                              /\ \A k \in (o + 1)..(j - 1) : content[k] \notin {Fence, FenceJson}
                      ELSE Len(content) + 1
             IN  [i \in 1..(c - o - 1) |-> content[o + i]]

\* the text is one JSON value, with white space around it at most
IsValidJson(text) ==
    \E i \in DOMAIN text :
        /\ text[i] \in JsonTexts
        /\ \A j \in DOMAIN text \ {i} : text[j] = Newline
StatedJsonValue(text) ==
    LET i == CHOOSE j \in DOMAIN text : text[j] \in JsonTexts
    IN  CASE text[i] = AnalysisJson -> [assessment |-> "..."]
          [] text[i] = ErrorJson -> [error |-> "..."]
          [] text[i] = NullJson -> None

\* C28: analyze_trading_data never raises.  Without an API key it returns
\* a dict with an "error" key and the API is not called.  With a key the
\* API is called once: a failed call gives a dict with an "error" key, a
\* body without the expected structure too; a content that is valid JSON,
\* taken from inside a json fence or a plain fence when there is one, gives
\* the parsed value; any other content gives {"raw_analysis": content}.
C28_AnalyzeNeverRaises ==
    pc = "analyzed" =>
        /\ llm_analysis.ok
        /\ OPENROUTER_API_KEY = "" =>
              /\ api_calls = 0
              /\ HasErrorKey(llm_analysis.v)
        /\ OPENROUTER_API_KEY # "" =>
              /\ api_calls = 1
              /\ IF AnswerFailed \/ AnswerLacksContent
                 THEN HasErrorKey(llm_analysis.v)
                 ELSE IF IsValidJson(StatedJsonText(AnsweredContent))
                 THEN llm_analysis.v = StatedJsonValue(StatedJsonText(AnsweredContent))
                 ELSE llm_analysis.v = [raw_analysis |-> AnsweredContent]

\* a reply of prose followed by a json block has been parsed to the
\* analysis inside the block
C28_Witness ==
    /\ pc = "analyzed"
    /\ OPENROUTER_API_KEY # ""
    /\ ~AnswerFailed
    /\ ~AnswerLacksContent
    /\ AnsweredContent = <<Prose, FenceJson, AnalysisJson>>
    /\ llm_analysis = Ok([assessment |-> "..."])

----------------------------------------------------------------------------
(* main, from the fetch to the call of generate_html_report.  `calls` is   *)
(* the sequence of the collaborators main has called.  generate_html_report*)
(* raises for every batch with trades and main catches nothing, so the     *)
(* run ends there: the upload, the email and the cleanup are never reached.*)

\* what get_closed_pnl hands to main: nothing, a winning or a losing trade
FetchedBatches ==
    {<<>>} \cup {<<RawTrade("BTCUSDT", p, <<T_0900Z, T_0900Z>>)>> :
                    p \in {<<"1", "8">>, <<"-", "9", ".", "5">>}}

\* the user_data dict main builds from the constants of user_input
UserData == UserBundle(RiskManagement(Units(9)))

Call(fn) == [fn |-> fn]
ReportCall(with_llm) == [fn |-> "generate_html_report", llm |-> with_llm]

\* `"error" in analysis`: a TypeError when analysis is None
contains_error(analysis) ==
    IF "none" \in DOMAIN analysis THEN Raise("TypeError")
    ELSE Ok("error" \in DOMAIN analysis)

\* get_llm_analysis for a batch with trades: the summary, the analysis, the
\* printing of its error
get_llm_analysis(data, user_data, risk, api_key, answer) ==
    LET trading_summary == prepare_trading_data_summary(data, user_data, risk)
        analysis == IF api_key = "" THEN NoApiKeyError ELSE analysis_of(answer)
    IN  IF ~trading_summary.ok THEN trading_summary
        ELSE IF ~contains_error(analysis).ok THEN contains_error(analysis)
        ELSE Ok(analysis)

InitMain ==
    /\ pnl_data = <<>>
    /\ user_input = None
    /\ STANDARD_RISK = ""
    /\ pc = "main"
    /\ summary = Pending
    /\ report = Pending
    /\ gdrive_report = Pending
    /\ rr_section = Pending
    /\ summary_again = Pending
    /\ processed = Pending
    /\ report_columns = Pending
    /\ report_plots_folder = Unset
    /\ runs = [r \in Runs |-> NotStarted]
    /\ savefig_calls = {}
    /\ args \in [tempdir : BOOLEAN, upload : BOOLEAN]
    /\ OPENROUTER_API_KEY \in {"", "sk-or-v1"}
    /\ calls = <<>>
    /\ llm_analysis = Pending
    /\ api_calls = 0
    /\ api_response = Pending
    /\ exchange = <<>>
    /\ requests = <<>>
    /\ all_pnl_data = <<>>
    /\ next_cursor = None
    /\ closed_pnl = Pending
    /\ drive_files = {}
    /\ drive_call = [at |-> "idle"]

\* pnl_data = get_closed_pnl(); main returns when it is empty, and builds
\* user_data otherwise
MainFetch ==
    /\ pc = "main"
    /\ \E data \in FetchedBatches :
        /\ pnl_data' = data
        /\ closed_pnl' = Ok(data)
        /\ user_input' = IF data = <<>> THEN user_input ELSE UserData
        /\ pc' = IF data = <<>> THEN "exit" ELSE "fetched"
    /\ calls' = Append(calls, Call("get_closed_pnl"))
    /\ UNCHANGED <<STANDARD_RISK, summary, report, gdrive_report, rr_section,
                   summary_again, normalizer_vars, plot_vars>>
    /\ UNCHANGED <<args, OPENROUTER_API_KEY, llm_vars, exchange, requests,
                   all_pnl_data, next_cursor, drive_vars>>

\* setup_report_directory, then the branch on OPENROUTER_API_KEY
MainSetupReportDirectory ==
    /\ pc = "fetched"
    /\ calls' = Append(calls, Call("setup_report_directory"))
    /\ pc' = IF OPENROUTER_API_KEY = "" THEN "report" ELSE "llm"
    /\ UNCHANGED <<args, OPENROUTER_API_KEY, llm_vars, fetch_vars, drive_vars,
                   analytics_vars>>

\* llm_analysis = get_llm_analysis(pnl_data, date, user_data); an exception
\* of it ends the run
MainGetLlmAnalysis ==
    /\ pc = "llm"
    /\ \E answer \in ApiAnswers :
        /\ api_response' = answer
        /\ llm_analysis' = get_llm_analysis(pnl_data, user_input, STANDARD_RISK,
                                            OPENROUTER_API_KEY, answer)
    /\ api_calls' = api_calls + 1
    /\ summary' = prepare_trading_data_summary(pnl_data, user_input, STANDARD_RISK)
    /\ calls' = Append(calls, Call("get_llm_analysis"))
    /\ pc' = IF llm_analysis'.ok THEN "report" ELSE "exit"
    /\ UNCHANGED <<pnl_data, user_input, STANDARD_RISK, report, gdrive_report,
                   rr_section, summary_again, normalizer_vars, plot_vars>>
    /\ UNCHANGED <<args, OPENROUTER_API_KEY, fetch_vars, drive_vars>>

\* the analysis is put into user_data when the key is set and the analysis
\* has no "error" key
attach_llm_analysis(api_key, analysis) ==
    api_key # "" /\ ~contains_error(analysis.v).v

\* the one of the three calls of generate_html_report that the branch
\* reaches; its exception ends the run
MainGenerateHtmlReport ==
    /\ pc = "report"
    /\ calls' = Append(calls, ReportCall(attach_llm_analysis(OPENROUTER_API_KEY,
                                                             llm_analysis)))
    /\ report' = generate_html_report(pnl_data, user_input)
    /\ pc' = IF report'.ok THEN "generated" ELSE "exit"
    /\ UNCHANGED <<pnl_data, user_input, STANDARD_RISK, summary, gdrive_report,
                   rr_section, summary_again, normalizer_vars, plot_vars>>
    /\ UNCHANGED <<args, OPENROUTER_API_KEY, llm_vars, fetch_vars, drive_vars>>

NextMain ==
    \/ MainFetch
    \/ MainSetupReportDirectory
    \/ MainGetLlmAnalysis
    \/ MainGenerateHtmlReport

SpecMain == InitMain /\ [][NextMain]_vars

----------------------------------------------------------------------------
(* C27 *)

ReportCalls == {i \in DOMAIN calls : calls[i].fn = "generate_html_report"}
OutsideCalls == {i \in DOMAIN calls :
                    calls[i].fn \in {"upload_to_google_drive", "send_report_email"}}

\* C27 as stated: a run of main that fetched trades has called
\* generate_html_report exactly once when it ends, before any upload and
\* any email, with the LLM analysis attached exactly when an API key is set
\* and the analysis has no "error" key; a run that fetched no trade ends
\* having created no directory and called neither the LLM, the upload nor
\* the email.
C27_ReportCalledOnce ==
    pc = "exit" =>
        IF pnl_data = <<>>
        THEN calls = <<Call("get_closed_pnl")>> /\ api_calls = 0
        ELSE /\ Cardinality(ReportCalls) = 1
             /\ \A i \in ReportCalls :
                   /\ \A j \in OutsideCalls : i < j
                   /\ calls[i].llm <=>
                         /\ OPENROUTER_API_KEY # ""
                         /\ llm_analysis.ok
                         /\ "error" \notin DOMAIN llm_analysis.v

----------------------------------------------------------------------------
(* get_closed_pnl: the loop over the pages of the exchange.  `requests` is *)
(* the cursor of every request sent (None for a request without one),      *)
(* `exchange` the answer to each: a dict with retCode 0, a list and        *)
(* perhaps a nextPageCursor, a dict with another retCode, or an exception  *)
(* of the client.                                                          *)

MaxPages == 3

\* the j-th record of the k-th page
PageRecord(k, j) == [orderId |-> <<k, j>>]
PageLists(k) == {<<>>, <<PageRecord(k, 1)>>, <<PageRecord(k, 1), PageRecord(k, 2)>>}
\* nextPageCursor: missing, empty, or the cursor of the next page
PageCursors == {None, Some(""), Some("c1"), Some("c2")}
Page(list, cursor) == [kind |-> "dict", retCode |-> 0, list |-> list, cursor |-> cursor]
ErrorDict == [kind |-> "dict", retCode |-> 10001, list |-> <<>>, cursor |-> None]
ClientRaises == [kind |-> "raises", retCode |-> 0, list |-> <<>>, cursor |-> None]

\* `if next_cursor:` / `if not next_cursor:`
is_truthy(cursor) == ~cursor.none /\ cursor.v # ""

\* params["cursor"] of the next request
cursor_param(cursor) == IF is_truthy(cursor) THEN cursor ELSE None

InitFetch ==
    /\ pnl_data = <<>>
    /\ user_input = None
    /\ STANDARD_RISK = ""
    /\ pc = "paging"
    /\ summary = Pending
    /\ report = Pending
    /\ gdrive_report = Pending
    /\ rr_section = Pending
    /\ summary_again = Pending
    /\ processed = Pending
    /\ report_columns = Pending
    /\ report_plots_folder = Unset
    /\ runs = [r \in Runs |-> NotStarted]
    /\ savefig_calls = {}
    /\ args = [tempdir |-> FALSE, upload |-> FALSE]
    /\ OPENROUTER_API_KEY = ""
    /\ calls = <<>>
    /\ llm_analysis = Pending
    /\ api_calls = 0
    /\ api_response = Pending
    /\ exchange = <<>>
    /\ requests = <<>>
    /\ all_pnl_data = <<>>
    /\ next_cursor = None
    /\ closed_pnl = Pending
    /\ drive_files = {}
    /\ drive_call = [at |-> "idle"]

\* one turn of the loop answered with retCode 0: an empty list ends the
\* loop, the records are appended otherwise and a missing or empty cursor
\* ends the loop.  The page number MaxPages is the last the exchange has.
PageReceived ==
    /\ pc = "paging"
    /\ \E list \in PageLists(Len(requests) + 1), cursor \in PageCursors :
        /\ Len(requests) + 1 = MaxPages => ~is_truthy(cursor)
        /\ exchange' = Append(exchange, Page(list, cursor))
        /\ IF list = <<>>
           THEN /\ closed_pnl' = Ok(all_pnl_data)
                /\ pc' = "returned"
                /\ UNCHANGED <<all_pnl_data, next_cursor>>
           ELSE /\ all_pnl_data' = all_pnl_data \o list
                /\ next_cursor' = cursor
                /\ IF is_truthy(cursor)
                   THEN pc' = "paging" /\ UNCHANGED closed_pnl
                   ELSE pc' = "returned" /\ closed_pnl' = Ok(all_pnl_data')
    /\ requests' = Append(requests, cursor_param(next_cursor))
    /\ UNCHANGED <<main_vars, llm_vars, drive_vars, analytics_vars>>

\* a turn answered with another retCode: the loop ends
ErrorReceived ==
    /\ pc = "paging"
    /\ exchange' = Append(exchange, ErrorDict)
    /\ requests' = Append(requests, cursor_param(next_cursor))
    /\ closed_pnl' = Ok(all_pnl_data)
    /\ pc' = "returned"
    /\ UNCHANGED <<all_pnl_data, next_cursor>>
    /\ UNCHANGED <<main_vars, llm_vars, drive_vars, analytics_vars>>

\* session.get_closed_pnl raises: `except Exception` returns []
RequestRaises ==
    /\ pc = "paging"
    /\ exchange' = Append(exchange, ClientRaises)
    /\ requests' = Append(requests, cursor_param(next_cursor))
    /\ closed_pnl' = Ok(<<>>)
    /\ pc' = "returned"
    /\ UNCHANGED <<all_pnl_data, next_cursor>>
    /\ UNCHANGED <<main_vars, llm_vars, drive_vars, analytics_vars>>

NextFetch ==
    \/ PageReceived
    \/ ErrorReceived
    \/ RequestRaises

SpecFetch == InitFetch /\ [][NextFetch]_vars

----------------------------------------------------------------------------
(* C29 *)

RECURSIVE ConcatLists(_)
ConcatLists(answers) ==
    IF answers = <<>> THEN <<>>
    ELSE ConcatLists(SubSeq(answers, 1, Len(answers) - 1))
             \o answers[Len(answers)].list

\* the answers that were pages with records
ReceivedPages == SelectSeq(exchange, LAMBDA a : a.kind = "dict" /\ a.retCode = 0)
\* an answer after which the claim has the loop go on
GoesOn(a) == a.kind = "dict" /\ a.retCode = 0 /\ a.list # <<>> /\ is_truthy(a.cursor)

\* C29 as stated: when get_closed_pnl has returned, the first request
\* carried no cursor and every later one the nextPageCursor of the answer
\* before it; every answer but the last was a page with records and a
\* cursor; the list returned is the concatenation, in request order, of the
\* lists of the pages received, so that every record fetched is in it once.
C29_PagesConcatenated ==
    pc = "returned" =>
        /\ Len(requests) = Len(exchange)
        /\ requests[1] = None
        /\ \A k \in 2..Len(requests) : requests[k] = exchange[k - 1].cursor
        /\ \A k \in 1..(Len(exchange) - 1) : GoesOn(exchange[k])
        /\ closed_pnl = Ok(ConcatLists(ReceivedPages))
        /\ \A k \in DOMAIN exchange : \A j \in DOMAIN exchange[k].list :
              Cardinality({i \in DOMAIN closed_pnl.v :
                              closed_pnl.v[i] = exchange[k].list[j]}) = 1

----------------------------------------------------------------------------
(* GoogleDriveService: the calls upload_directory makes, one after the     *)
(* other, on a Drive.  A Drive is the set of its entries: id, name, parent *)
(* (Root for none), folder or file, trashed or not, and the number of      *)
(* times the content was written.                                          *)

MaxDriveFiles == 4
MaxVersion == 2

Root == 0
FolderNames == {"Bybit_Trading_Analysis", "20240102_090000"}
FileNames == {"trading_report.html", "pnl_by_symbol.png"}

DriveEntry(id, name, parent, folder, trashed) ==
    [id |-> id, name |-> name, parent |-> parent, folder |-> folder,
     trashed |-> trashed, version |-> 1]

\* the Drive before the run: empty; with the main folder; with the main
\* folder and a report in it that was moved to the trash
InitialDrives ==
    {{},
     {DriveEntry(1, "Bybit_Trading_Analysis", Root, TRUE, FALSE)},
     {DriveEntry(1, "Bybit_Trading_Analysis", Root, TRUE, FALSE),
      DriveEntry(2, "trading_report.html", 1, FALSE, TRUE)}}

NewId(files) == Cardinality(files) + 1
LiveFolders(files) == {f \in files : f.folder /\ ~f.trashed}

\* files().list(q = "mimeType = folder and name = ... and trashed = false"
\* [and parent in parents])
existing_folders(files, folder_name, parent_folder_id) ==
    {f \in LiveFolders(files) :
        /\ f.name = folder_name
        /\ parent_folder_id.none \/ f.parent = parent_folder_id.v}

\* mutant: the file is created without looking for one of its name
existing_files_unseen(files, file_name, folder_id) == {}
\* files().list(q = "name = ... and folder_id in parents and trashed = false")
existing_files(files, file_name, folder_id) ==
    {f \in files : f.name = file_name /\ f.parent = folder_id /\ ~f.trashed}

InitDrive ==
    /\ pnl_data = <<>>
    /\ user_input = None
    /\ STANDARD_RISK = ""
    /\ pc = "uploading"
    /\ summary = Pending
    /\ report = Pending
    /\ gdrive_report = Pending
    /\ rr_section = Pending
    /\ summary_again = Pending
    /\ processed = Pending
    /\ report_columns = Pending
    /\ report_plots_folder = Unset
    /\ runs = [r \in Runs |-> NotStarted]
    /\ savefig_calls = {}
    /\ args = [tempdir |-> FALSE, upload |-> TRUE]
    /\ OPENROUTER_API_KEY = ""
    /\ calls = <<>>
    /\ llm_analysis = Pending
    /\ api_calls = 0
    /\ api_response = Pending
    /\ exchange = <<>>
    /\ requests = <<>>
    /\ all_pnl_data = <<>>
    /\ next_cursor = None
    /\ closed_pnl = Pending
    /\ drive_files \in InitialDrives
    /\ drive_call = [at |-> "idle"]

\* get_or_create_folder(folder_name, parent_folder_id): the first folder
\* the list returns, or a new folder
GetOrCreateFolder ==
    /\ pc = "uploading"
    /\ \E folder_name \in FolderNames,
          parent \in {None} \cup {Some(f.id) : f \in LiveFolders(drive_files)} :
        LET folders == existing_folders(drive_files, folder_name, parent)
        IN  IF folders # {}
            THEN /\ \E f \in folders :
                      drive_call' = [at |-> "get_or_create_folder", did |-> "found",
                                     id |-> f.id]
                 /\ UNCHANGED drive_files
            ELSE /\ Cardinality(drive_files) < MaxDriveFiles
                 /\ drive_files' = drive_files \cup
                        {DriveEntry(NewId(drive_files), folder_name,
                                    IF parent.none THEN Root ELSE parent.v,
                                    TRUE, FALSE)}
                 /\ drive_call' = [at |-> "get_or_create_folder", did |-> "created",
                                   id |-> NewId(drive_files)]
    /\ UNCHANGED <<pc, main_vars, llm_vars, fetch_vars, analytics_vars>>

\* upload_file(file_path, folder_id): the first file of that name in the
\* folder gets the new content, or a new file is created
UploadFile ==
    /\ pc = "uploading"
    /\ \E file_name \in FileNames, folder \in LiveFolders(drive_files) :
        LET existing == existing_files(drive_files, file_name, folder.id)
        IN  IF existing # {}
            THEN \E f \in existing :
                    /\ f.version < MaxVersion
                    /\ drive_files' = (drive_files \ {f})
                           \cup {[f EXCEPT !.version = f.version + 1]}
                    /\ drive_call' = [at |-> "upload_file", did |-> "updated",
                                      id |-> f.id]
            ELSE /\ Cardinality(drive_files) < MaxDriveFiles
                 /\ drive_files' = drive_files \cup
                        {DriveEntry(NewId(drive_files), file_name, folder.id,
                                    FALSE, FALSE)}
                 /\ drive_call' = [at |-> "upload_file", did |-> "created",
                                   id |-> NewId(drive_files)]
    /\ UNCHANGED <<pc, main_vars, llm_vars, fetch_vars, analytics_vars>>

NextDrive ==
    \/ GetOrCreateFolder
    \/ UploadFile

SpecDrive == InitDrive /\ [][NextDrive]_vars

----------------------------------------------------------------------------
(* C30 *)

\* the ids of the entries of one name and kind that a folder holds
Holding(files, name, parent, folder) ==
    {f.id : f \in {g \in files : /\ g.name = name
                                 /\ g.parent = parent
                                 /\ g.folder = folder
                                 /\ ~g.trashed}}
DriveNames == FolderNames \cup FileNames
DriveParents == {Root} \cup {f.id : f \in drive_files}

\* C30: at every moment of a sequence of upload_file and
\* get_or_create_folder calls, a folder holds at most one file of a name
\* and at most one folder of a name; and a call for a name the folder
\* already holds leaves the folder holding that same entry, never a second.
C30_OneEntryPerName ==
    /\ [](\A name \in DriveNames, parent \in DriveParents, folder \in BOOLEAN :
             Cardinality(Holding(drive_files, name, parent, folder)) <= 1)
    /\ [][\A name \in DriveNames, parent \in DriveParents, folder \in BOOLEAN :
             Holding(drive_files, name, parent, folder) # {} =>
                 Holding(drive_files', name, parent, folder)
                     = Holding(drive_files, name, parent, folder)]_vars

\* the report was uploaded twice into the dated folder: the second upload
\* wrote the content of the file of the first, and the folder holds one
C30_Witness ==
    /\ drive_call.at = "upload_file"
    /\ drive_call.did = "updated"
    /\ \E f \in drive_files :
          /\ f.id = drive_call.id
          /\ f.version = 2
          /\ f.name = "trading_report.html"
          /\ Holding(drive_files, f.name, f.parent, FALSE) = {f.id}
          /\ \E d \in drive_files : d.id = f.parent /\ d.name = "20240102_090000"

====
